---------------------------- MODULE Spec2Model ----------------------------
(***************************************************************************)
(* A model of collect_image_listing.py: the script that reads every        *)
(* Fotos_*.html gallery page of a folder, classifies its tables (big image *)
(* blocks, ffn.gif contact sheets, conservation-status tables), builds one *)
(* record per image and writes the records to one worksheet.               *)
(*                                                                         *)
(* Text is modelled as a sequence of characters, each character a string   *)
(* (named characters: "times" is the multiplication sign, "nl" a newline,  *)
(* "eacute" e with acute accent, "Atilde" and "copy" the two characters a  *)
(* Latin-1 decoder makes of the UTF-8 bytes of "eacute", "u9A69" the       *)
(* letter U+9A69, "uXXXX" the character U+XXXX).  The cased letters are    *)
(* a-z and A-Z, "atilde" and "Atilde", "eacute" and "Eacute", and the      *)
(* characters of SpecialCased.  A parsed page                              *)
(* is the sequence of the sibling nodes of its body; a table is its        *)
(* width and border attributes and its rows of cells.  Nested tables are   *)
(* outside the model.  An attribute that may be absent is <<>> (None) or   *)
(* <<value>>.                                                              *)
(***************************************************************************)
EXTENDS Integers, Sequences, FiniteSets, TLC

VARIABLES
  t_text,     \* _match_threat_in_text: the text argument
  t_input,    \* the text as first given
  t_label,    \* _match_threat_in_text: the label returned by the last call
  t_first,    \* the label returned for the text as first given
  t_pc        \* "idle", "input", "matched", "recased"

tvars == <<t_text, t_input, t_label, t_first, t_pc>>

VARIABLES
  b_sibs,     \* the sibling nodes of the page body, in document order
  b_start,    \* the index of start_tbl, 0 before a lookup
  b_found,    \* find_stage_tag_near_table: the loop's sib (0: none) and count at its end
  b_stage,    \* find_stage_tag_near_table: the text returned
  b_follow,   \* find_following_800_text_tables: the list returned
  b_rows,     \* parse_big_blocks: the rows returned
  b_pc        \* "idle", "input", "stage", "follow", "rows"

bvars == <<b_sibs, b_start, b_found, b_stage, b_follow, b_rows, b_pc>>

VARIABLES
  s_soup,     \* the sibling nodes of the page
  s_rows,     \* parse_small_ffn_tables: the rows returned
  s_pc        \* "idle", "input", "rows"

svars == <<s_soup, s_rows, s_pc>>

VARIABLES
  cwd,        \* the name of the current folder
  dirs,       \* the directories of the parent of the current folder, each with its entries
  on_nt,      \* the platform is Windows: the separator is "\\", glob compares names without letter case
  files,      \* main()'s files: what the glob listed ({} before the listing)
  pc,         \* "idle", "start", "loop", "done"
  todo,       \* the files of sorted(files) not yet visited
  path,       \* the loop's path (<<>> before the loop)
  filename,   \* the loop's filename (<<>> before the loop)
  species,    \* the loop's species
  rows,       \* the loop's rows: what parse_file returned
  records,    \* the output records
  stdout,     \* the messages printed
  opens,      \* the open() calls made: file name and encoding
  worksheet,  \* the cells of the worksheet written, by <<row, column>>
  written,    \* a workbook was written
  exit_code   \* what main() returned: None before it returns, Some(0) after

mvars == <<cwd, dirs, on_nt, files, pc, todo, path, filename, species, rows, records, stdout, opens,
           worksheet, written, exit_code>>

-----------------------------------------------------------------------------
(* Characters *)

LowerLetters ==
  <<"a","b","c","d","e","f","g","h","i","j","k","l","m",
    "n","o","p","q","r","s","t","u","v","w","x","y","z">>

UpperLetters ==
  <<"A","B","C","D","E","F","G","H","I","J","K","L","M",
    "N","O","P","Q","R","S","T","U","V","W","X","Y","Z">>

\* The cased letters: a-z, and the accented letters the pages hold
CasedLower == LowerLetters \o <<"atilde", "eacute">>
CasedUpper == UpperLetters \o <<"Atilde", "Eacute">>

AlphabetSize == Len(CasedLower)

LowerSet == {CasedLower[i] : i \in 1..AlphabetSize}
UpperSet == {CasedUpper[i] : i \in 1..AlphabetSize}
DigitSet == {"0","1","2","3","4","5","6","7","8","9"}
SpaceSet == {" ", "nl"}

\* Letters paired one to one by str.lower() and str.upper()
ToLower == [c \in UpperSet |-> CasedLower[CHOOSE i \in 1..AlphabetSize : CasedUpper[i] = c]]
ToUpper == [c \in LowerSet |-> CasedUpper[CHOOSE i \in 1..AlphabetSize : CasedLower[i] = c]]

\* Cased characters outside the pairs: U+0130 (capital I with dot), U+0399
\* and U+03B9 (iota), U+1E97 (t with diaeresis), U+0345 (combining iota);
\* their mappings hold the combining marks U+0307 and U+0308
SpecialUpperCase == {"u0130", "u0399"}
SpecialLowerCase == {"u03B9", "u1E97", "u0345"}
SpecialCased == SpecialUpperCase \cup SpecialLowerCase

\* The lower case of one character as re.IGNORECASE takes it: one character
LowerChar(c) ==
  IF c \in UpperSet THEN ToLower[c]
  ELSE IF c = "u0130" THEN "i"
  ELSE IF c = "u0399" THEN "u03B9"
  ELSE c

\* str.lower(), str.upper() and str.swapcase() of one character: a string
LowerOf(c) ==
  IF c \in UpperSet THEN <<ToLower[c]>>
  ELSE IF c = "u0130" THEN <<"i", "u0307">>
  ELSE IF c = "u0399" THEN <<"u03B9">>
  ELSE <<c>>

UpperOf(c) ==
  IF c \in LowerSet THEN <<ToUpper[c]>>
  ELSE IF c = "u1E97" THEN <<"T", "u0308">>
  ELSE IF c \in {"u0345", "u03B9"} THEN <<"u0399">>
  ELSE <<c>>

SwapOf(c) ==
  IF c \in UpperSet \cup SpecialUpperCase THEN LowerOf(c)
  ELSE IF c \in LowerSet \cup SpecialLowerCase THEN UpperOf(c)
  ELSE <<c>>

RECURSIVE lower(_)
lower(s) == IF s = <<>> THEN <<>> ELSE LowerOf(Head(s)) \o lower(Tail(s))

RECURSIVE upper(_)
upper(s) == IF s = <<>> THEN <<>> ELSE UpperOf(Head(s)) \o upper(Tail(s))

RECURSIVE swapcase(_)
swapcase(s) == IF s = <<>> THEN <<>> ELSE SwapOf(Head(s)) \o swapcase(Tail(s))

\* The text with the case of its k-th character changed
SwapAt(s, k) == SubSeq(s, 1, k - 1) \o SwapOf(s[k]) \o SubSeq(s, k + 1, Len(s))

\* \w, \s and \d of the re module on str
IsWordChar(c) ==
  c \in LowerSet \cup UpperSet \cup DigitSet \cup {"_", "u9A69", "u0130", "u0399", "u03B9", "u1E97"}
IsSpaceChar(c) == c \in SpaceSet
IsDigitChar(c) == c \in DigitSet

\* value.endswith(suffix) and needle in haystack
EndsWith(s, suffix) ==
  /\ Len(s) >= Len(suffix)
  /\ SubSeq(s, Len(s) - Len(suffix) + 1, Len(s)) = suffix

StartsWith(s, prefix) ==
  /\ Len(s) >= Len(prefix)
  /\ SubSeq(s, 1, Len(prefix)) = prefix

Contains(haystack, needle) ==
  \E i \in 0..(Len(haystack) - Len(needle)) :
    SubSeq(haystack, i + 1, i + Len(needle)) = needle

-----------------------------------------------------------------------------
(* Regular expressions, as far as the script's patterns use them.  A       *)
(* pattern is a sequence of elements; the matcher carries the set of text  *)
(* offsets (0..Len) that the elements read so far can end at.              *)

B == [k |-> "b", s |-> <<>>, alts |-> {}, cls |-> ""]                 \* \b
Lit(s) == [k |-> "lit", s |-> s, alts |-> {}, cls |-> ""]             \* literal text
Alt(alts) == [k |-> "alt", s |-> <<>>, alts |-> alts, cls |-> ""]     \* (?:a|b|...)
Star(cls) == [k |-> "star", s |-> <<>>, alts |-> {}, cls |-> cls]     \* [cls]*
Opt(cls) == [k |-> "opt", s |-> <<>>, alts |-> {}, cls |-> cls]       \* [cls]?
One(cls) == [k |-> "one", s |-> <<>>, alts |-> {}, cls |-> cls]       \* [cls]

\* Character classes; a class is matched under re.IGNORECASE
InClass(cls, c) ==
  CASE cls = "sep"   -> IsSpaceChar(c) \/ c = "-"          \* [\s\-]
    [] cls = "w"     -> IsWordChar(c)                      \* \w
    [] cls = "s"     -> IsSpaceChar(c)                     \* \s
    [] cls = "colon" -> c \in {":", "-"}                   \* [:\-]
    [] cls = "x"     -> c \in {"x", "X", "times"}          \* [xX{times}]
    [] OTHER         -> FALSE

WordAt(text, i) == i >= 1 /\ i <= Len(text) /\ IsWordChar(text[i])

\* LitAt without re.IGNORECASE
LitAtCaseSensitive(text, p, s) ==
  /\ p + Len(s) <= Len(text)
  /\ \A j \in 1..Len(s) : text[p + j] = s[j]

\* A literal matches at offset p under re.IGNORECASE
LitAt(text, p, s) ==
  /\ p + Len(s) <= Len(text)
  /\ \A j \in 1..Len(s) : LowerChar(text[p + j]) = s[j]

StepElem(e, text, P) ==
  CASE e.k = "b"    -> {p \in P : WordAt(text, p) # WordAt(text, p + 1)}
    [] e.k = "lit"  -> {p + Len(e.s) : p \in {q \in P : LitAt(text, q, e.s)}}
    [] e.k = "alt"  -> UNION {{p + Len(a) : p \in {q \in P : LitAt(text, q, a)}} : a \in e.alts}
    [] e.k = "star" -> {q \in 0..Len(text) :
                          \E p \in P : p <= q /\ \A j \in (p + 1)..q : InClass(e.cls, text[j])}
    [] e.k = "opt"  -> P \cup {p + 1 : p \in {q \in P : q < Len(text) /\ InClass(e.cls, text[q + 1])}}
    [] e.k = "one"  -> {p + 1 : p \in {q \in P : q < Len(text) /\ InClass(e.cls, text[q + 1])}}

RECURSIVE MatchEnds(_, _, _, _)
MatchEnds(pat, i, text, P) ==
  IF P = {} \/ i > Len(pat) THEN P
  ELSE MatchEnds(pat, i + 1, text, StepElem(pat[i], text, P))

\* pat.search(text): the pattern matches somewhere in the text
Search(pat, text) == MatchEnds(pat, 1, text, 0..Len(text)) # {}

-----------------------------------------------------------------------------
(* Conservation status *)

CATEGORY_LABELS ==
  <<"Near-threatened", "Vulnerable", "Endangered", "Critically Endangered">>

NearThreatenedPatterns ==
  << <<B, Lit(<<"n", "e", "a", "r">>), Star("sep"), Lit(<<"t", "h", "r", "e", "a", "t", "e", "n">>), Alt({<<"e", "d">>, <<"n", "e", "d">>}), B>>,
     <<B, Lit(<<"n", "e", "a", "r", "t", "h">>), Star("sep"), Lit(<<"t", "h", "r", "e", "a", "t">>), Alt({<<"e", "n">>, <<"e", "n", "e", "d">>, <<"e", "d">>, <<"n", "e", "d">>}), B>>,
     <<B, Lit(<<"n", "e", "a", "r">>), Star("sep"), Lit(<<"t", "h", "r", "e", "a", "t", "e", "d">>), B>>,
     <<B, Lit(<<"n", "e", "a", "r">>), Star("sep"), Lit(<<"t", "h", "r", "e", "a", "t">>), Star("w"), B>>,
     <<B, Lit(<<"c", "a", "s", "i">>), Star("sep"), Lit(<<"a", "m", "e", "n", "a", "z", "a", "d">>), Alt({<<"a">>, <<"o">>}), Alt({<<>>, <<"s">>}), B>> >>

VulnerablePatterns ==
  << <<B, Lit(<<"v", "u", "l", "n", "e", "r", "a", "b", "l">>), Alt({<<"e">>}), B>>,
     <<B, Lit(<<"v", "u", "l", "n", "e", "r", "a", "b", "l", "e">>), B>> >>

EndangeredPatterns ==
  << <<B, Lit(<<"e", "n", "d", "a", "n", "g", "e", "r">>), Alt({<<"e", "d">>, <<"d">>}), B>>,
     <<B, Lit(<<"e", "n", "d", "a", "n", "g", "e", "r", "e", "d">>), B>>,
     <<B, Lit(<<"e", "n">>), Star("sep"), Lit(<<"p", "e", "l", "i", "g", "r", "o">>), B>> >>

CriticallyEndangeredPatterns ==
  << <<B, Lit(<<"c", "r", "i", "t", "i", "c", "a", "l">>), Alt({<<>>, <<"l", "y">>}), Star("sep"), Lit(<<"e", "n", "d", "a", "n", "g", "e", "r">>), Alt({<<"e", "d">>, <<"d">>}), B>>,
     <<B, Lit(<<"c", "r", "i", "t", "i", "c", "a", "l", "l", "y">>), Star("sep"), Lit(<<"e", "n", "d", "a", "n", "g", "e", "r", "e", "d">>), B>>,
     <<B, Lit(<<"c", "i", "r", "t", "i", "c", "a", "l">>), Alt({<<>>, <<"l", "y">>}), Star("sep"), Lit(<<"e", "n", "d", "a", "g", "e", "r">>), Alt({<<"e", "d">>, <<"d">>}), B>>,
     <<B, Lit(<<"c", "i", "r", "t", "i", "c", "a", "l", "l", "y">>), Star("sep"), Lit(<<"e", "n", "d", "a", "g", "e", "r", "e", "d">>), B>>,
     <<B, Lit(<<"e", "n">>), Star("sep"), Lit(<<"p", "e", "l", "i", "g", "r", "o">>), Star("sep"), Lit(<<"c", "r", "i", "t", "i", "c", "o">>), B>> >>

\* The dict, in its insertion order: the order .items() iterates in
THREAT_VARIANTS ==
  << [canonical |-> "Near-threatened", patterns |-> NearThreatenedPatterns],
     [canonical |-> "Vulnerable", patterns |-> VulnerablePatterns],
     [canonical |-> "Endangered", patterns |-> EndangeredPatterns],
     [canonical |-> "Critically Endangered", patterns |-> CriticallyEndangeredPatterns] >>

AnyPatternMatches(patterns, text) ==
  \E j \in 1..Len(patterns) : Search(patterns[j], text)

RECURSIVE MatchThreatFrom(_, _)
MatchThreatFrom(c, text) ==
  IF c > Len(THREAT_VARIANTS) THEN ""
  ELSE IF AnyPatternMatches(THREAT_VARIANTS[c].patterns, text)
       THEN THREAT_VARIANTS[c].canonical
       ELSE MatchThreatFrom(c + 1, text)

\* The first category, in dict order, one of whose patterns matches
_match_threat_in_text(text) == MatchThreatFrom(1, text)

-----------------------------------------------------------------------------
(* Texts given to _match_threat_in_text: a phrase, its words joined by a   *)
(* separator, with up to MaxPad pieces of other text before it and up to   *)
(* one after it;                                                           *)
(* and texts with runs of separators and with characters whose upper or    *)
(* lower case is longer than one character or of another character class.  *)

MaxPad == 1

Seps == {<<" ">>, <<"-">>, <<>>}

RECURSIVE Join(_, _)
Join(words, sep) ==
  IF Len(words) = 0 THEN <<>>
  ELSE IF Len(words) = 1 THEN words[1]
  ELSE words[1] \o sep \o Join(Tail(words), sep)

\* The variants the patterns list, per category.  open: the variant is a
\* prefix (the pattern ends in \w*), so any word characters may follow it.
ListedVariants ==
  { [category |-> "Near-threatened", words |-> w, open |-> FALSE] :
      w \in { <<<<"n", "e", "a", "r">>, <<"t", "h", "r", "e", "a", "t", "e", "n", "e", "d">>>>, <<<<"n", "e", "a", "r">>, <<"t", "h", "r", "e", "a", "t", "e", "n", "n", "e", "d">>>>,
              <<<<"n", "e", "a", "r">>, <<"t", "h", "r", "e", "a", "t", "e", "d">>>>,
              <<<<"n", "e", "a", "r", "t", "h">>, <<"t", "h", "r", "e", "a", "t", "e", "n">>>>, <<<<"n", "e", "a", "r", "t", "h">>, <<"t", "h", "r", "e", "a", "t", "e", "n", "e", "d">>>>,
              <<<<"n", "e", "a", "r", "t", "h">>, <<"t", "h", "r", "e", "a", "t", "e", "d">>>>, <<<<"n", "e", "a", "r", "t", "h">>, <<"t", "h", "r", "e", "a", "t", "n", "e", "d">>>>,
              <<<<"c", "a", "s", "i">>, <<"a", "m", "e", "n", "a", "z", "a", "d", "a">>>>, <<<<"c", "a", "s", "i">>, <<"a", "m", "e", "n", "a", "z", "a", "d", "o">>>>,
              <<<<"c", "a", "s", "i">>, <<"a", "m", "e", "n", "a", "z", "a", "d", "a", "s">>>>, <<<<"c", "a", "s", "i">>, <<"a", "m", "e", "n", "a", "z", "a", "d", "o", "s">>>> } }
  \cup { [category |-> "Near-threatened", words |-> <<<<"n", "e", "a", "r">>, <<"t", "h", "r", "e", "a", "t">>>>, open |-> TRUE] }
  \cup { [category |-> "Vulnerable", words |-> <<<<"v", "u", "l", "n", "e", "r", "a", "b", "l", "e">>>>, open |-> FALSE] }
  \cup { [category |-> "Endangered", words |-> w, open |-> FALSE] :
      w \in { <<<<"e", "n", "d", "a", "n", "g", "e", "r", "e", "d">>>>, <<<<"e", "n", "d", "a", "n", "g", "e", "r", "d">>>>, <<<<"e", "n">>, <<"p", "e", "l", "i", "g", "r", "o">>>> } }
  \cup { [category |-> "Critically Endangered", words |-> w, open |-> FALSE] :
      w \in { <<<<"c", "r", "i", "t", "i", "c", "a", "l", "l", "y">>, <<"e", "n", "d", "a", "n", "g", "e", "r", "e", "d">>>>, <<<<"c", "r", "i", "t", "i", "c", "a", "l", "l", "y">>, <<"e", "n", "d", "a", "n", "g", "e", "r", "d">>>>,
              <<<<"c", "r", "i", "t", "i", "c", "a", "l">>, <<"e", "n", "d", "a", "n", "g", "e", "r", "e", "d">>>>, <<<<"c", "r", "i", "t", "i", "c", "a", "l">>, <<"e", "n", "d", "a", "n", "g", "e", "r", "d">>>>,
              <<<<"c", "i", "r", "t", "i", "c", "a", "l", "l", "y">>, <<"e", "n", "d", "a", "g", "e", "r", "e", "d">>>>, <<<<"c", "i", "r", "t", "i", "c", "a", "l", "l", "y">>, <<"e", "n", "d", "a", "g", "e", "r", "d">>>>,
              <<<<"c", "i", "r", "t", "i", "c", "a", "l">>, <<"e", "n", "d", "a", "g", "e", "r", "e", "d">>>>, <<<<"c", "i", "r", "t", "i", "c", "a", "l">>, <<"e", "n", "d", "a", "g", "e", "r", "d">>>>,
              <<<<"e", "n">>, <<"p", "e", "l", "i", "g", "r", "o">>, <<"c", "r", "i", "t", "i", "c", "o">>>> } }

\* Phrases that are no variant of any category
OtherPhrases ==
  { <<<<"l", "e", "a", "s", "t">>, <<"c", "o", "n", "c", "e", "r", "n">>>>, <<<<"t", "h", "r", "e", "a", "t", "e", "n", "e", "d">>>>, <<<<"d", "a", "n", "g", "e", "r">>>>,
    <<<<"e", "n">>, <<"c", "r", "i", "t", "i", "c", "o">>>>, <<<<"e", "x", "t", "i", "n", "c", "t">>>> }

\* The phrases the texts are built from
Phrases ==
  { <<<<"n", "e", "a", "r">>, <<"t", "h", "r", "e", "a", "t", "e", "n", "e", "d">>>>, <<<<"n", "e", "a", "r">>, <<"t", "h", "r", "e", "a", "t", "e", "n", "n", "e", "d">>>>, <<<<"n", "e", "a", "r">>, <<"t", "h", "r", "e", "a", "t", "e", "d">>>>,
    <<<<"n", "e", "a", "r", "t", "h">>, <<"t", "h", "r", "e", "a", "t", "e", "n", "e", "d">>>>, <<<<"n", "e", "a", "r">>, <<"t", "h", "r", "e", "a", "t", "s">>>>,
    <<<<"c", "a", "s", "i">>, <<"a", "m", "e", "n", "a", "z", "a", "d", "a">>>>, <<<<"c", "a", "s", "i">>, <<"a", "m", "e", "n", "a", "z", "a", "d", "o", "s">>>>,
    <<<<"v", "u", "l", "n", "e", "r", "a", "b", "l", "e">>>>, <<<<"e", "n", "d", "a", "n", "g", "e", "r", "e", "d">>>>, <<<<"e", "n", "d", "a", "n", "g", "e", "r", "d">>>>, <<<<"e", "n">>, <<"p", "e", "l", "i", "g", "r", "o">>>>,
    <<<<"c", "r", "i", "t", "i", "c", "a", "l", "l", "y">>, <<"e", "n", "d", "a", "n", "g", "e", "r", "e", "d">>>>, <<<<"c", "r", "i", "t", "i", "c", "a", "l">>, <<"e", "n", "d", "a", "n", "g", "e", "r", "d">>>>,
    <<<<"c", "i", "r", "t", "i", "c", "a", "l", "l", "y">>, <<"e", "n", "d", "a", "g", "e", "r", "e", "d">>>>, <<<<"e", "n">>, <<"p", "e", "l", "i", "g", "r", "o">>, <<"c", "r", "i", "t", "i", "c", "o">>>> }
  \cup OtherPhrases

PadsBefore == {<<"x", "-">>, <<"z">>}
PadsAfter == {<<" ", "x">>, <<"s">>}

RECURSIVE PadTexts(_, _)
PadTexts(n, pads) ==
  IF n = 0 THEN {<<>>}
  ELSE LET shorter == PadTexts(n - 1, pads)
       IN  shorter \cup {p \o q : p \in pads, q \in shorter}

PaddedTexts ==
  { pre \o core \o post :
      pre \in PadTexts(MaxPad, PadsBefore),
      core \in UNION {{Join(w, sep), SwapAt(Join(w, sep), 1)} : w \in Phrases, sep \in Seps},
      post \in {<<>>} \cup PadsAfter }

\* Texts with several separators between the words
SpacedTexts ==
  { <<"n", "e", "a", "r", " ", "-", " ", "t", "h", "r", "e", "a", "t", "e", "n", "e", "d">>, <<"C", "a", "s", "i", " ", " ", "A", "m", "e", "n", "a", "z", "a", "d", "a">>, <<"e", "n", "nl", "-", "p", "e", "l", "i", "g", "r", "o", " ", " ", "c", "r", "i", "t", "i", "c", "o">>, <<"n", "e", "a", "r", " ", "-", "-", " ", "t", "h", "r", "e", "a", "t", "u0308", "s">> }

\* Texts with a cased character that is no ASCII letter
SpecialTexts ==
  { <<"n", "e", "a", "r", " ", "t", "h", "r", "e", "a", "u1E97", " ", "e", "n", "d", "a", "n", "g", "e", "r", "e", "d">>, <<"e", "n", "d", "a", "n", "g", "e", "r", "e", "d", "u0345">>, <<"v", "u", "l", "n", "e", "r", "a", "b", "l", "e", "u0345">>,
    <<"E", "n", " ", "p", "e", "l", "u0130", "g", "r", "o">>, <<"e", "n", "d", "a", "n", "g", "e", "r", "e", "d", "u0307">>, <<"C", "a", "f", "eacute", " ", "-", " ", "v", "u", "l", "n", "e", "r", "a", "b", "l", "e">> }

ThreatTexts == PaddedTexts \cup SpacedTexts \cup SpecialTexts

\* The text with its letter case changed: str.upper(), str.lower(),
\* str.swapcase(), or the case of one letter changed
CaseChanges(text) ==
  ({upper(text), lower(text), swapcase(text)} \cup {SwapAt(text, k) : k \in 1..Len(text)})
    \ {text}

\* Every cased character of the text is an ASCII letter
AsciiCased(text) ==
  \A i \in 1..Len(text) :
    \/ text[i] \in {LowerLetters[k] : k \in 1..26} \cup {UpperLetters[k] : k \in 1..26}
    \/ LowerOf(text[i]) = <<text[i]>> /\ UpperOf(text[i]) = <<text[i]>>

SepChars == SpaceSet \cup {"-"}

\* Where the words end when the first starts at offset p and any run of
\* separators stands between two of them
RECURSIVE WordsEnd(_, _, _)
WordsEnd(t, words, p) ==
  LET e == p + Len(Head(words))
  IN  IF e > Len(t) \/ SubSeq(t, p + 1, e) # Head(words) THEN {}
      ELSE IF Len(words) = 1 THEN {e}
      ELSE UNION { WordsEnd(t, Tail(words), q) :
                     q \in {r \in e..Len(t) : \A j \in (e + 1)..r : t[j] \in SepChars} }

\* A variant occurs in the text as the words it is listed with, between
\* word boundaries, in any letter case and with any separators
OccursIn(v, text) ==
  LET t == [i \in 1..Len(text) |-> LowerChar(text[i])]
  IN  \E i \in 0..(Len(t) - 1) :
        /\ t[i + 1] = v.words[1][1]
        /\ WordAt(t, i) # WordAt(t, i + 1)
        /\ \E e \in WordsEnd(t, v.words, i) :
             \/ WordAt(t, e) # WordAt(t, e + 1)
             \/ v.open /\ WordAt(t, e + 1)

ContainsVariantOf(categories, text) ==
  \E v \in ListedVariants : v.category \in categories /\ OccursIn(v, text)

CategorySet == {CATEGORY_LABELS[i] : i \in 1..Len(CATEGORY_LABELS)}

-----------------------------------------------------------------------------
(* _match_threat_in_text on a text, and again on the text in another case *)

MatchThreat ==
  /\ t_pc = "input"
  /\ t_label' = _match_threat_in_text(t_text)
  /\ t_first' = t_label'
  /\ t_pc' = "matched"
  /\ UNCHANGED <<t_text, t_input>>
  /\ UNCHANGED <<bvars, svars, mvars>>

ChangeCase ==
  /\ t_pc = "matched"
  /\ \E changed \in CaseChanges(t_text) :
       /\ t_text' = changed
       /\ t_label' = _match_threat_in_text(changed)
  /\ t_pc' = "recased"
  /\ UNCHANGED <<t_first, t_input>>
  /\ UNCHANGED <<bvars, svars, mvars>>

ThreatNext == MatchThreat \/ ChangeCase

(* C5: a text every cased character of which is an ASCII letter gets one   *)
(* of the four category labels when it contains a listed variant and the   *)
(* empty string when it contains none, and the label is the same for the   *)
(* text in any other letter case.                                          *)
ThreatMatchIgnoresAsciiCase ==
  (t_pc \in {"matched", "recased"} /\ AsciiCased(t_input)) =>
    /\ t_label = t_first
    /\ ContainsVariantOf(CategorySet, t_text) => t_label \in CategorySet
    /\ ~ContainsVariantOf(CategorySet, t_text) => t_label = ""

\* An upper-case text with a variant
ThreatMatchIgnoresCaseWitness ==
  /\ t_pc = "recased"
  /\ AsciiCased(t_input)
  /\ t_text = <<"X", "-", "N", "E", "A", "R", "-", "T", "H", "R", "E", "A", "T", "E", "N", "E", "D">>
  /\ t_label = "Near-threatened"

\* C5 as stated, for every text: the label is that of the variant the text
\* contains and is the same for the text in any other letter case
ThreatMatchIgnoresCase ==
  t_pc \in {"matched", "recased"} =>
    /\ t_label = t_first
    /\ ContainsVariantOf(CategorySet, t_text) => t_label \in CategorySet
    /\ ~ContainsVariantOf(CategorySet, t_text) => t_label = ""

(* C8: a text that contains a Critically Endangered variant gets the label *)
(* Critically Endangered.                                                  *)
CriticallyEndangeredLabel ==
  (t_pc \in {"matched", "recased"} /\ ContainsVariantOf({"Critically Endangered"}, t_text))
    => t_label = "Critically Endangered"

-----------------------------------------------------------------------------
(* Text helpers *)

RECURSIVE lstrip(_)
lstrip(s) == IF s # <<>> /\ IsSpaceChar(Head(s)) THEN lstrip(Tail(s)) ELSE s

RECURSIVE rstrip(_)
rstrip(s) ==
  IF s # <<>> /\ IsSpaceChar(s[Len(s)]) THEN rstrip(SubSeq(s, 1, Len(s) - 1)) ELSE s

\* str.strip()
strip(s) == rstrip(lstrip(s))

\* re.sub(r"\s+", " ", text): every run of whitespace becomes one space
RECURSIVE CollapseSpaces(_)
CollapseSpaces(s) ==
  IF s = <<>> THEN <<>>
  ELSE IF IsSpaceChar(Head(s))
       THEN <<" ">> \o CollapseSpaces(lstrip(s))
       ELSE <<Head(s)>> \o CollapseSpaces(Tail(s))

compact_text(text) == IF text = <<>> THEN <<>> ELSE strip(CollapseSpaces(text))

\* endswith_jpg without the suffix test
NonEmptyValue(value) == value # <<>> /\ value[1] # <<>>

\* value is None (<<>>) or a string (<<s>>)
endswith_jpg(value) ==
  /\ value # <<>>
  /\ value[1] # <<>>
  /\ EndsWith(value[1], <<".", "j", "p", "g">>)

\* int(s): surrounding whitespace, an optional sign, decimal digits with
\* single underscores between them
DigitValue(c) == CHOOSE d \in 0..9 : <<"0","1","2","3","4","5","6","7","8","9">>[d + 1] = c

RECURSIVE DigitsValue(_, _)
DigitsValue(s, acc) ==
  IF s = <<>> THEN acc
  ELSE IF Head(s) = "_" THEN DigitsValue(Tail(s), acc)
  ELSE DigitsValue(Tail(s), 10 * acc + DigitValue(Head(s)))

IsIntLiteral(digits) ==
  /\ digits # <<>>
  /\ IsDigitChar(digits[1])
  /\ IsDigitChar(digits[Len(digits)])
  /\ \A i \in 1..Len(digits) : IsDigitChar(digits[i]) \/ digits[i] = "_"
  /\ \A i \in 1..(Len(digits) - 1) : ~(digits[i] = "_" /\ digits[i + 1] = "_")

ParseInt(s) ==
  LET t == strip(s)
      signed == t # <<>> /\ Head(t) \in {"+", "-"}
      digits == IF signed THEN Tail(t) ELSE t
  IN  IF ~IsIntLiteral(digits)
      THEN [ok |-> FALSE, val |-> 0]
      ELSE [ok |-> TRUE,
            val |-> IF signed /\ Head(t) = "-" THEN 0 - DigitsValue(digits, 0)
                    ELSE DigitsValue(digits, 0)]

-----------------------------------------------------------------------------
(* The parsed page.  A node is a Tag (a table, or another element) or a    *)
(* string between the elements.  A cell holds one text node, at most one   *)
(* <a> and at most one <img>.                                              *)

None == <<>>
Some(v) == <<v>>

Cell(background, colspan, text, a_href, img_src, img_in_a) ==
  [background |-> background,   \* the td's background attribute
   colspan |-> colspan,         \* the td's colspan attribute
   text |-> text,               \* the td's text node
   a_href |-> a_href,           \* the href of the cell's <a>; None: no <a href>
   img_src |-> img_src,         \* the src of the cell's <img>; None: no <img src>
   img_in_a |-> img_in_a]       \* the <img> lies inside the <a>

TextCell(text) == Cell(None, None, text, None, None, FALSE)

Table(width, border, trs) ==
  [tag |-> "table", width |-> width, border |-> border, rows |-> trs]

\* An element that is no table, and a NavigableString
OtherTag == [tag |-> "p", width |-> None, border |-> None, rows |-> <<>>]
StringNode == [tag |-> "#text", width |-> None, border |-> None, rows |-> <<>>]

IsTableTag(node) == node.tag = "table"

RECURSIVE Flatten(_)
Flatten(seqs) == IF seqs = <<>> THEN <<>> ELSE Head(seqs) \o Flatten(Tail(seqs))

\* tbl.find_all("td"), in document order
Cells(tbl) == Flatten(tbl.rows)

\* " ".join of the stripped, non-empty text nodes
RECURSIVE JoinTexts(_)
JoinTexts(cells) ==
  IF cells = <<>> THEN <<>>
  ELSE LET first == strip(Head(cells).text)
           rest == JoinTexts(Tail(cells))
       IN  IF first = <<>> THEN rest
           ELSE IF rest = <<>> THEN first
           ELSE first \o <<" ">> \o rest

\* tag.get_text(" ", strip=True) of a row or a cell list
get_text(cells) == JoinTexts(cells)

TableText(tbl) == compact_text(get_text(Cells(tbl)))

-----------------------------------------------------------------------------
(* Table classification *)

STAGE_KEYWORDS ==
  << <<"m", "a", "l", "e">>, <<"f", "e", "m", "a", "l", "e">>, <<"c", "h", "i", "c", "k", "s">>, <<"j", "u", "v", "e", "n", "i", "l", "e">>, <<"i", "m", "m", "a", "t", "u", "r", "e">>, <<"i", "m", "m", "a", "t", "u", "r", "e", "s">>,
     <<"s", "u", "b", "a", "d", "u", "l", "t">>, <<"s", "u", "b", "-", "a", "d", "u", "l", "t">>, <<"n", "e", "s", "t">>, <<"n", "y", "m", "p", "h">>, <<"e", "g", "g">>, <<"e", "g", "g", "s">>, <<"a", "d", "u", "l", "t">>,
     <<"m", "a", "c", "h", "o">>, <<"h", "e", "m", "b", "r", "a">>, <<"p", "i", "c", "h", "o", "n">>, <<"p", "i", "c", "h", "o", "n", "e", "s">>, <<"j", "u", "v", "e", "n", "i", "l">>, <<"i", "n", "m", "a", "d", "u", "r", "o">>, <<"i", "n", "m", "a", "d", "u", "r", "o", "s">>,
     <<"s", "u", "b", "a", "d", "u", "l", "t", "o">>, <<"n", "i", "d", "o">>, <<"n", "i", "n", "f", "a">>, <<"h", "u", "e", "v", "o">>, <<"h", "u", "e", "v", "o", "s">>, <<"a", "d", "u", "l", "t", "o">>, <<"a", "d", "u", "l", "t", "o", "s">> >>

MaxStageLen == 120

_looks_like_stage_table(tbl) ==
  /\ IsTableTag(tbl)
  /\ LET t == TableText(tbl)
         t_lower == lower(t)
     IN  /\ \E k \in 1..Len(STAGE_KEYWORDS) : Contains(t_lower, STAGE_KEYWORDS[k])
         /\ ~\E i \in 1..Len(t) : IsDigitChar(t[i])
         /\ ~(Len(t) > MaxStageLen)

MinBigBorder == 6

\* int(tbl.get("border", "0")), 0 on ValueError
BorderValue(tbl) ==
  LET parsed == ParseInt(IF tbl.border = None THEN <<"0">> ELSE tbl.border[1])
  IN  IF parsed.ok THEN parsed.val ELSE 0

is_big_image_table(tbl) ==
  /\ IsTableTag(tbl)
  /\ tbl.width = Some(<<"8", "0", "0">>)
  /\ ~(BorderValue(tbl) < MinBigBorder)
  /\ \E i \in 1..Len(Cells(tbl)) : endswith_jpg(Cells(tbl)[i].img_src)

\* The least number of a set, 0 for the empty set
FirstOf(set) == IF set = {} THEN 0 ELSE CHOOSE i \in set : \A j \in set : i <= j

\* table.find("a", href=True) and table.find("img", src=True): the first
\* cell with an <a href>, and the first with an <img src> (0: none)
FirstAnchor(cells) == FirstOf({i \in 1..Len(cells) : cells[i].a_href # None})
FirstImage(cells) == FirstOf({i \in 1..Len(cells) : cells[i].img_src # None})

\* (thumbnail_src, large_href) of the table's first image region
extract_first_img_and_anchor(table) ==
  LET cells == Cells(table)
      a == FirstAnchor(cells)
      i == FirstImage(cells)
  IN  IF a # 0 /\ cells[a].img_in_a /\ endswith_jpg(cells[a].img_src)
      THEN [thumb |-> cells[a].img_src,
            large |-> IF endswith_jpg(cells[a].a_href) THEN cells[a].a_href ELSE None]
      ELSE IF i # 0 /\ endswith_jpg(cells[i].img_src)
      THEN [thumb |-> cells[i].img_src, large |-> None]
      ELSE [thumb |-> None, large |-> None]

-----------------------------------------------------------------------------
(* Lookups among the siblings of a table.  sibs is the sequence of the     *)
(* sibling nodes in document order and start the index of the table.       *)

max_lookback_tables == 3

\* StageScan that does not stop at a big image table
RECURSIVE StageScanCrossing(_, _, _, _)
StageScanCrossing(sibs, j, count, limit) ==
  IF j < 1 THEN [sib |-> 0, count |-> count]
  ELSE IF ~IsTableTag(sibs[j]) THEN StageScanCrossing(sibs, j - 1, count, limit)
  ELSE IF _looks_like_stage_table(sibs[j]) THEN [sib |-> j, count |-> count + 1]
  ELSE IF count + 1 >= limit THEN [sib |-> 0, count |-> count + 1]
  ELSE StageScanCrossing(sibs, j - 1, count + 1, limit)

\* The loop of find_stage_tag_near_table from sibling j down, count tables
\* examined so far: the sibling returned (sib, 0 if none) and the count
RECURSIVE StageScan(_, _, _, _)
StageScan(sibs, j, count, limit) ==
  IF j < 1 THEN [sib |-> 0, count |-> count]
  ELSE IF ~IsTableTag(sibs[j]) THEN StageScan(sibs, j - 1, count, limit)
  ELSE IF is_big_image_table(sibs[j]) THEN [sib |-> 0, count |-> count]
  ELSE IF _looks_like_stage_table(sibs[j]) THEN [sib |-> j, count |-> count + 1]
  ELSE IF count + 1 >= limit THEN [sib |-> 0, count |-> count + 1]
  ELSE StageScan(sibs, j - 1, count + 1, limit)

find_stage_tag_near_table(sibs, start) ==
  LET found == StageScan(sibs, start - 1, 0, max_lookback_tables)
  IN  IF found.sib = 0 THEN <<>> ELSE TableText(sibs[found.sib])

max_tables == 2

IsTextTable800(node) == node.width = Some(<<"8", "0", "0">>) /\ node.border = Some(<<"1">>)

\* FollowScan that does not stop at a big image table
RECURSIVE FollowScanCrossing(_, _, _, _)
FollowScanCrossing(sibs, j, results, limit) ==
  IF j > Len(sibs) THEN results
  ELSE IF ~IsTableTag(sibs[j]) THEN FollowScanCrossing(sibs, j + 1, results, limit)
  ELSE LET added == IF IsTextTable800(sibs[j])
                    THEN Append(results, TableText(sibs[j]))
                    ELSE results
       IN  IF IsTextTable800(sibs[j]) /\ Len(added) >= limit THEN added
           ELSE FollowScanCrossing(sibs, j + 1, added, limit)

\* The loop of find_following_800_text_tables from sibling j up
RECURSIVE FollowScan(_, _, _, _)
FollowScan(sibs, j, results, limit) ==
  IF j > Len(sibs) THEN results
  ELSE IF ~IsTableTag(sibs[j]) THEN FollowScan(sibs, j + 1, results, limit)
  ELSE LET added == IF IsTextTable800(sibs[j])
                    THEN Append(results, TableText(sibs[j]))
                    ELSE results
       IN  IF IsTextTable800(sibs[j]) /\ Len(added) >= limit THEN added
           ELSE IF is_big_image_table(sibs[j]) THEN added
           ELSE FollowScan(sibs, j + 1, added, limit)

find_following_800_text_tables(sibs, start) ==
  FollowScan(sibs, start + 1, <<>>, max_tables)

\* "" for a missing value
OrEmpty(value) == IF value = None THEN <<>> ELSE value[1]

\* The row parse_big_blocks builds for the big image table at index i
BigRow(sibs, i) ==
  LET found == extract_first_img_and_anchor(sibs[i])
      follow_texts == find_following_800_text_tables(sibs, i)
  IN  [Is_Small_ffn_gif |-> <<>>,
       Thumbnail_File |-> found.thumb[1],
       Large_File |-> OrEmpty(found.large),
       Camera_Equipment |-> IF Len(follow_texts) >= 1 THEN follow_texts[1] ELSE <<>>,
       Location_Date |-> IF Len(follow_texts) >= 2 THEN follow_texts[2] ELSE <<>>,
       Sex_Age |-> find_stage_tag_near_table(sibs, i)]

RECURSIVE BigRowsFrom(_, _)
BigRowsFrom(sibs, i) ==
  IF i > Len(sibs) THEN <<>>
  ELSE IF ~is_big_image_table(sibs[i]) THEN BigRowsFrom(sibs, i + 1)
  ELSE IF extract_first_img_and_anchor(sibs[i]).thumb = None THEN BigRowsFrom(sibs, i + 1)
  ELSE <<BigRow(sibs, i)>> \o BigRowsFrom(sibs, i + 1)

parse_big_blocks(soup) == BigRowsFrom(soup, 1)

-----------------------------------------------------------------------------
(* The sibling lookups on pages of up to MaxSibs sibling nodes.  Every     *)
(* node's text and file names carry the letter of its position, so that    *)
(* the texts of two nodes differ.                                          *)

MaxSibs == 5

PositionLetters == <<"a", "b", "c", "d", "e", "f", "g", "h">>

NodeKinds == {"big", "text800", "stage", "frame", "p"}

MakeNode(kind, pos) ==
  LET letter == <<PositionLetters[pos]>>
  IN  CASE kind = "big" ->
             Table(Some(<<"8", "0", "0">>), Some(<<"9">>),
                   << <<Cell(None, None, <<"n", "e", "s", "t", " ">> \o letter,
                             Some(<<"b", "i", "g", "_">> \o letter \o <<".", "j", "p", "g">>),
                             Some(letter \o <<".", "j", "p", "g">>), TRUE)>> >>)
        [] kind = "text800" ->
             Table(Some(<<"8", "0", "0">>), Some(<<"1">>), << <<TextCell(<<"c", "a", "n", "o", "n", " ", " ">> \o letter)>> >>)
        [] kind = "stage" ->
             Table(None, None, << <<TextCell(<<"M", "a", "l", "e", " ">> \o letter)>> >>)
        [] kind = "frame" ->
             Table(Some(<<"8", "0", "0">>), Some(<<"9">>),
                   << <<Cell(None, None, <<>>, None, Some(<<"b", "a", "r", ".", "g", "i", "f">>), FALSE)>> >>)
        [] OTHER -> OtherTag

BlockPages ==
  UNION { { [j \in 1..n |-> MakeNode(kinds[j], j)] : kinds \in [1..n -> NodeKinds] } :
          n \in 1..MaxSibs }

\* find_stage_tag_near_table(start_tbl) for a table of the page
FindStage ==
  /\ b_pc = "input"
  /\ \E start \in 1..Len(b_sibs) :
       /\ IsTableTag(b_sibs[start])
       /\ b_start' = start
       /\ b_found' = StageScan(b_sibs, start - 1, 0, max_lookback_tables)
       /\ b_stage' = find_stage_tag_near_table(b_sibs, start)
  /\ b_pc' = "stage"
  /\ UNCHANGED <<b_sibs, b_follow, b_rows>>
  /\ UNCHANGED <<tvars, svars, mvars>>

\* find_following_800_text_tables(tbl) for a big image table of the page
FindFollowing ==
  /\ b_pc = "input"
  /\ \E start \in 1..Len(b_sibs) :
       /\ is_big_image_table(b_sibs[start])
       /\ b_start' = start
       /\ b_follow' = find_following_800_text_tables(b_sibs, start)
  /\ b_pc' = "follow"
  /\ UNCHANGED <<b_sibs, b_found, b_stage, b_rows>>
  /\ UNCHANGED <<tvars, svars, mvars>>

ParseBigBlocks ==
  /\ b_pc = "input"
  /\ b_rows' = parse_big_blocks(b_sibs)
  /\ b_pc' = "rows"
  /\ UNCHANGED <<b_sibs, b_start, b_found, b_stage, b_follow>>
  /\ UNCHANGED <<tvars, svars, mvars>>

BlocksNext == FindStage \/ FindFollowing \/ ParseBigBlocks

\* The numbers of a set in increasing order
RECURSIVE Ascending(_)
Ascending(set) ==
  IF set = {} THEN <<>>
  ELSE LET least == CHOOSE x \in set : \A y \in set : x <= y
       IN  <<least>> \o Ascending(set \ {least})

\* The nearest big image table before start (0: none) and after it (Len + 1: none)
PrevBig(sibs, start) ==
  IF \E j \in 1..(start - 1) : is_big_image_table(sibs[j])
  THEN CHOOSE j \in 1..(start - 1) :
         /\ is_big_image_table(sibs[j])
         /\ \A k \in (j + 1)..(start - 1) : ~is_big_image_table(sibs[k])
  ELSE 0

NextBig(sibs, start) ==
  IF \E j \in (start + 1)..Len(sibs) : is_big_image_table(sibs[j])
  THEN CHOOSE j \in (start + 1)..Len(sibs) :
         /\ is_big_image_table(sibs[j])
         /\ \A k \in (start + 1)..(j - 1) : ~is_big_image_table(sibs[k])
  ELSE Len(sibs) + 1

TablesBetween(sibs, lo, hi) == {k \in lo..hi : IsTableTag(sibs[k])}

(* C2: the stage label is the text of a sibling table that lies after the  *)
(* nearest preceding big image table and among the three nearest sibling   *)
(* tables of start_tbl; the scan examines at most max_lookback_tables      *)
(* tables, none of them at or before that big image table.                 *)
StageLookbackStaysInBlock ==
  b_pc = "stage" =>
    /\ b_found.count <= max_lookback_tables
    /\ b_found.count <= Cardinality(TablesBetween(b_sibs, PrevBig(b_sibs, b_start) + 1, b_start - 1))
    /\ b_found.sib # 0 =>
         /\ PrevBig(b_sibs, b_start) < b_found.sib
         /\ b_found.sib < b_start
         /\ Cardinality(TablesBetween(b_sibs, b_found.sib, b_start - 1)) <= max_lookback_tables
         /\ b_stage = TableText(b_sibs[b_found.sib])
         /\ \A j \in 1..PrevBig(b_sibs, b_start) : b_stage # TableText(b_sibs[j])
    /\ b_found.sib = 0 => b_stage = <<>>

\* A stage table lies before the preceding big image table, none after it
StageLookbackWitness ==
  /\ b_pc = "stage"
  /\ b_start = 4
  /\ PrevBig(b_sibs, b_start) = 2
  /\ _looks_like_stage_table(b_sibs[1])
  /\ IsTableTag(b_sibs[3])
  /\ b_found.count = 1
  /\ b_stage = <<>>

\* The fourth table back is a stage table: it is not examined
StageLookbackLimitWitness ==
  /\ b_pc = "stage"
  /\ b_start = 5
  /\ _looks_like_stage_table(b_sibs[1])
  /\ b_found = [sib |-> 0, count |-> max_lookback_tables]

\* The texts of the first max_tables 800-wide border-1 tables between start
\* and the next big image table
TextTablesOfBlock(sibs, start) ==
  LET cands == Ascending({j \in (start + 1)..(NextBig(sibs, start) - 1) :
                            IsTableTag(sibs[j]) /\ IsTextTable800(sibs[j])})
      firsts == SubSeq(cands, 1, IF Len(cands) < max_tables THEN Len(cands) ELSE max_tables)
  IN  [k \in 1..Len(firsts) |-> TableText(sibs[firsts[k]])]

NthOrEmpty(seq, n) == IF Len(seq) >= n THEN seq[n] ELSE <<>>

(* C9: find_following_800_text_tables returns the texts of the first two   *)
(* 800-wide border-1 sibling tables that lie before the next big image     *)
(* table, and fewer when fewer exist; Camera_Equipment and Location_Date   *)
(* of a big block's row are the first and the second of them, or empty.    *)
FollowingTextsStayInBlock ==
  /\ b_pc = "follow" =>
       /\ Len(b_follow) <= max_tables
       /\ b_follow = TextTablesOfBlock(b_sibs, b_start)
  /\ b_pc = "rows" =>
       LET bigs == Ascending({j \in 1..Len(b_sibs) : is_big_image_table(b_sibs[j])})
       IN  /\ Len(b_rows) = Len(bigs)
           /\ \A k \in 1..Len(bigs) :
                /\ b_rows[k].Camera_Equipment = NthOrEmpty(TextTablesOfBlock(b_sibs, bigs[k]), 1)
                /\ b_rows[k].Location_Date = NthOrEmpty(TextTablesOfBlock(b_sibs, bigs[k]), 2)

\* One text table in the block, the next one after the next big image table
FollowingTextsWitness ==
  /\ b_pc = "rows"
  /\ Len(b_sibs) = 4
  /\ is_big_image_table(b_sibs[1])
  /\ IsTextTable800(b_sibs[2])
  /\ is_big_image_table(b_sibs[3])
  /\ IsTextTable800(b_sibs[4])
  /\ b_rows[1].Camera_Equipment = <<"c", "a", "n", "o", "n", " ", "b">>
  /\ b_rows[1].Location_Date = <<>>
  /\ b_rows[2].Camera_Equipment = <<"c", "a", "n", "o", "n", " ", "d">>

-----------------------------------------------------------------------------
(* ffn.gif contact sheets *)

\* td.get("background") and "ffn.gif" in td.get("background")
IsFfnCell(td) ==
  /\ td.background # None
  /\ td.background[1] # <<>>
  /\ Contains(td.background[1], <<"f", "f", "n", ".", "g", "i", "f">>)

\* max(1, int(colspan_val) if colspan_val else 1), 1 on ValueError
ColSpan(td) ==
  LET parsed == IF td.colspan = None \/ td.colspan[1] = <<>>
                THEN [ok |-> TRUE, val |-> 1]
                ELSE ParseInt(td.colspan[1])
      colspan == IF parsed.ok THEN parsed.val ELSE 1
  IN  IF colspan > 1 THEN colspan ELSE 1

CellText(td) == compact_text(get_text(<<td>>))

\* [cell_text] * colspan for the cells of a row, concatenated
RECURSIVE ExpandedTexts(_)
ExpandedTexts(tds) ==
  IF tds = <<>> THEN <<>>
  ELSE [k \in 1..ColSpan(Head(tds)) |-> CellText(Head(tds))] \o ExpandedTexts(Tail(tds))

\* Stacked text rows combined per column
CombineColumns(last, expanded) ==
  [c \in 1..Len(last) |->
     IF last[c] # <<>> /\ expanded[c] # <<>>
     THEN last[c] \o <<" ">> \o expanded[c]
     ELSE IF last[c] # <<>> THEN last[c] ELSE expanded[c]]

\* last_text_by_column after a row without ffn.gif cells
TextRowUpdate(last, expanded) ==
  IF \E c \in 1..Len(expanded) : expanded[c] # <<>>
  THEN IF last # <<>> /\ Len(last) = Len(expanded)
       THEN CombineColumns(last, expanded)
       ELSE expanded
  ELSE <<>>

\* The rows a row with ffn.gif cells yields, from cell i on, col the column pointer
RECURSIVE FfnRowRecords(_, _, _, _, _)
FfnRowRecords(tds, i, col, last, stage_label) ==
  IF i > Len(tds) THEN <<>>
  ELSE LET td == tds[i]
           isFfn == td.background # None /\ Contains(td.background[1], <<"f", "f", "n", ".", "g", "i", "f">>)
           thumb == IF endswith_jpg(td.img_src) THEN td.img_src ELSE None
           large == IF td.a_href # None /\ endswith_jpg(td.a_href) THEN td.a_href ELSE None
           rec == [Is_Small_ffn_gif |-> <<"Y">>,
                   Thumbnail_File |-> OrEmpty(thumb),
                   Large_File |-> OrEmpty(large),
                   Camera_Equipment |-> <<>>,
                   Location_Date |-> IF col < Len(last) THEN last[col + 1] ELSE <<>>,
                   Sex_Age |-> stage_label]
       IN  (IF isFfn /\ thumb # None /\ thumb[1] # <<>> THEN <<rec>> ELSE <<>>)
             \o FfnRowRecords(tds, i + 1, col + ColSpan(td), last, stage_label)

\* The loop over the rows of one table, from row r on
RECURSIVE SmallTableRows(_, _, _, _)
SmallTableRows(trs, r, last, stage_label) ==
  IF r > Len(trs) THEN <<>>
  ELSE LET tds == trs[r]
           has_ffn == \E i \in 1..Len(tds) : IsFfnCell(tds[i])
       IN  IF ~has_ffn
           THEN SmallTableRows(trs, r + 1, TextRowUpdate(last, ExpandedTexts(tds)), stage_label)
           ELSE FfnRowRecords(tds, 1, 0, last, stage_label)
                  \o SmallTableRows(trs, r + 1, last, stage_label)

HasFfnCells(node) ==
  IsTableTag(node) /\ \E i \in 1..Len(Cells(node)) : IsFfnCell(Cells(node)[i])

RECURSIVE SmallRowsFrom(_, _)
SmallRowsFrom(sibs, i) ==
  IF i > Len(sibs) THEN <<>>
  ELSE IF ~HasFfnCells(sibs[i]) THEN SmallRowsFrom(sibs, i + 1)
  ELSE SmallTableRows(sibs[i].rows, 1, <<>>, find_stage_tag_near_table(sibs, i))
         \o SmallRowsFrom(sibs, i + 1)

parse_small_ffn_tables(soup) == SmallRowsFrom(soup, 1)

-----------------------------------------------------------------------------
(* parse_small_ffn_tables on a page of one stage table and one contact     *)
(* sheet of up to MaxRows rows.                                            *)

MaxRows == 4

RowKinds == {"captions", "wide", "single", "blank", "ffn", "shifted"}

FfnCell(src) == Cell(Some(<<".", ".", "/", "f", "f", "n", ".", "g", "i", "f">>), None, <<>>, Some(<<"b", "i", "g", "_">> \o src), Some(src), TRUE)

MakeRow(kind, pos) ==
  LET letter == <<PositionLetters[pos]>>
  IN  CASE kind = "captions" -> <<TextCell(<<"l", "a", "k", "e", " ">> \o letter), TextCell(<<"h", "i", "l", "l", " ">> \o letter)>>
        [] kind = "wide" -> <<Cell(None, Some(<<"2">>), <<"b", "a", "y", " ">> \o letter, None, None, FALSE)>>
        [] kind = "single" -> <<TextCell(<<"c", "a", "p", "e", " ">> \o letter)>>
        [] kind = "blank" -> <<TextCell(<<" ">>), TextCell(<<>>)>>
        [] kind = "ffn" -> <<FfnCell(letter \o <<"1", ".", "j", "p", "g">>), FfnCell(letter \o <<"2", ".", "j", "p", "g">>)>>
        [] OTHER -> <<Cell(None, Some(<<"2">>), <<>>, None, None, FALSE),
                      FfnCell(letter \o <<"3", ".", "j", "p", "g">>),
                      FfnCell(letter \o <<"4", ".", "g", "i", "f">>)>>

ContactSheets ==
  UNION { { Table(Some(<<"6", "0", "0">>), Some(<<"0">>), [r \in 1..n |-> MakeRow(kinds[r], r)]) :
              kinds \in [1..n -> RowKinds] } : n \in 1..MaxRows }

ParseSmallFfnTables ==
  /\ s_pc = "input"
  /\ s_rows' = parse_small_ffn_tables(s_soup)
  /\ s_pc' = "rows"
  /\ UNCHANGED s_soup
  /\ UNCHANGED <<tvars, bvars, mvars>>

SmallNext == ParseSmallFfnTables

RowHasFfn(tds) == \E i \in 1..Len(tds) : IsFfnCell(tds[i])
RowHasText(tds) == \E i \in 1..Len(tds) : CellText(tds[i]) # <<>>

\* The captions of the run of text rows first..last, stacked rows of equal
\* width joined per column
RECURSIVE RunCaptions(_, _, _)
RunCaptions(trs, first, last) ==
  IF first = last THEN ExpandedTexts(trs[last])
  ELSE LET above == RunCaptions(trs, first, last - 1)
           row == ExpandedTexts(trs[last])
       IN  IF Len(above) = Len(row) THEN CombineColumns(above, row) ELSE row

\* The captions that hold for the ffn.gif row r: those of the run of text
\* rows that ends at the nearest row above r that has no ffn.gif cell
CaptionsAbove(trs, r) ==
  LET above == {q \in 1..(r - 1) : ~RowHasFfn(trs[q])}
  IN  IF above = {} THEN <<>>
      ELSE LET last == CHOOSE q \in above : \A p \in above : p <= q
           IN  IF ~RowHasText(trs[last]) THEN <<>>
               ELSE LET first == CHOOSE p \in 1..last :
                                   /\ \A q \in p..last : ~RowHasFfn(trs[q]) /\ RowHasText(trs[q])
                                   /\ p = 1 \/ RowHasFfn(trs[p - 1]) \/ ~RowHasText(trs[p - 1])
                    IN  RunCaptions(trs, first, last)

\* The column at which cell i of a row starts, counted with colspan
RECURSIVE StartColumn(_, _)
StartColumn(tds, i) == IF i = 1 THEN 0 ELSE StartColumn(tds, i - 1) + ColSpan(tds[i - 1])

\* Location_Date, per the captions above, of every ffn.gif cell with a .jpg image
RECURSIVE CaptionsOfCells(_, _, _)
CaptionsOfCells(trs, r, i) ==
  IF r > Len(trs) THEN <<>>
  ELSE IF i > Len(trs[r]) THEN CaptionsOfCells(trs, r + 1, 1)
  ELSE (IF IsFfnCell(trs[r][i]) /\ endswith_jpg(trs[r][i].img_src)
        THEN <<NthOrEmpty(CaptionsAbove(trs, r), StartColumn(trs[r], i) + 1)>>
        ELSE <<>>)
         \o CaptionsOfCells(trs, r, i + 1)

(* C10: the Location_Date of the record of an ffn.gif cell is the caption  *)
(* of the cell's starting column in the nearest preceding run of text      *)
(* rows, empty after a row without text and beyond the caption row's width.*)
LocationIsNearestCaption ==
  s_pc = "rows" =>
    [k \in 1..Len(s_rows) |-> s_rows[k].Location_Date] = CaptionsOfCells(s_soup[2].rows, 1, 1)

-----------------------------------------------------------------------------
(* The conservation status of a page *)

\* The first row, from row r on, with a cell that is only "x" and a text
\* that matches a status: the rightmost cell's text first, then the row's
RECURSIVE StatusInRows(_, _)
StatusInRows(trs, r) ==
  IF r > Len(trs) THEN ""
  ELSE LET tds == trs[r]
           marker_found ==
             \E i \in 1..Len(tds) : lower(CellText(tds[i])) \in {<<"x">>, <<"times">>}
       IN  IF tds = <<>> \/ ~marker_found THEN StatusInRows(trs, r + 1)
           ELSE LET right_label == _match_threat_in_text(CellText(tds[Len(tds)]))
                    row_label == _match_threat_in_text(compact_text(get_text(tds)))
                IN  IF right_label # "" THEN right_label
                    ELSE IF row_label # "" THEN row_label
                    ELSE StatusInRows(trs, r + 1)

_find_status_in_table(table) ==
  IF ~IsTableTag(table) THEN "" ELSE StatusInRows(table.rows, 1)

MaxStatusSiblings == 4

\* The loop over table.next_siblings, from sibling j on
RECURSIVE StatusInSiblings(_, _, _)
StatusInSiblings(soup, j, sib_count) ==
  IF j > Len(soup) THEN ""
  ELSE IF ~IsTableTag(soup[j]) THEN StatusInSiblings(soup, j + 1, sib_count)
  ELSE IF _find_status_in_table(soup[j]) # "" THEN _find_status_in_table(soup[j])
  ELSE IF sib_count + 1 >= MaxStatusSiblings THEN ""
  ELSE StatusInSiblings(soup, j + 1, sib_count + 1)

\* pat.pattern + r"\s*[:\-]?\s*[xX{times}]"
MarkedPattern(pat) == pat \o <<Star("s"), Opt("colon"), Star("s"), One("x")>>

\* The header table's fallback: the first category with a pattern followed by a mark
RECURSIVE MarkedLabelFrom(_, _)
MarkedLabelFrom(c, text) ==
  IF c > Len(THREAT_VARIANTS) THEN ""
  ELSE IF \E j \in 1..Len(THREAT_VARIANTS[c].patterns) :
            Search(MarkedPattern(THREAT_VARIANTS[c].patterns[j]), text)
       THEN THREAT_VARIANTS[c].canonical
       ELSE MarkedLabelFrom(c + 1, text)

IsThreatHeader(table) ==
  Contains(lower(compact_text(get_text(Cells(table)))), <<"g", "l", "o", "b", "a", "l", "l", "y", " ", "t", "h", "r", "e", "a", "t", "e", "n", "e", "d", " ", "s", "p", "e", "c", "i", "e", "s">>)

\* What the body of the first loop returns for a header table ("": nothing)
HeaderStatus(soup, i) ==
  LET direct == _find_status_in_table(soup[i])
      status == StatusInSiblings(soup, i + 1, 0)
  IN  IF direct # "" THEN direct
      ELSE IF status # "" THEN status
      ELSE MarkedLabelFrom(1, get_text(Cells(soup[i])))

RECURSIVE StatusFromHeaders(_, _)
StatusFromHeaders(soup, i) ==
  IF i > Len(soup) THEN ""
  ELSE IF IsTableTag(soup[i]) /\ IsThreatHeader(soup[i]) /\ HeaderStatus(soup, i) # ""
       THEN HeaderStatus(soup, i)
       ELSE StatusFromHeaders(soup, i + 1)

\* The global fallback: the first table with a marked row and a known label
RECURSIVE StatusFromAnyTable(_, _)
StatusFromAnyTable(soup, i) ==
  IF i > Len(soup) THEN ""
  ELSE IF _find_status_in_table(soup[i]) # "" THEN _find_status_in_table(soup[i])
  ELSE StatusFromAnyTable(soup, i + 1)

find_threat_status(soup) ==
  IF StatusFromHeaders(soup, 1) # "" THEN StatusFromHeaders(soup, 1)
  ELSE StatusFromAnyTable(soup, 1)

-----------------------------------------------------------------------------
(* Reading a file.  A file's page is held as written on disk: the text of  *)
(* a cell is a sequence of bytes, an ASCII byte being its character and    *)
(* "xC3", "xA9", "xE9" the bytes C3, A9, E9.                               *)

HighBytes == {"xC3", "xA9", "xE9"}

\* The length of the UTF-8 sequence at the head of the bytes, 0 if it is invalid
Utf8SeqLen(bytes) ==
  IF Head(bytes) \notin HighBytes THEN 1
  ELSE IF Head(bytes) = "xC3" /\ Len(bytes) >= 2 /\ bytes[2] = "xA9" THEN 2
  ELSE IF Head(bytes) = "xE9" /\ Len(bytes) >= 3 /\ bytes[2] = "xA9" /\ bytes[3] = "xA9" THEN 3
  ELSE 0

RECURSIVE Utf8Valid(_)
Utf8Valid(bytes) ==
  \/ bytes = <<>>
  \/ /\ Utf8SeqLen(bytes) # 0
     /\ Utf8Valid(SubSeq(bytes, Utf8SeqLen(bytes) + 1, Len(bytes)))

\* bytes.decode("utf-8") of valid bytes: C3 A9 is "eacute", E9 A9 A9 the letter U+9A69
RECURSIVE DecodeUtf8(_)
DecodeUtf8(bytes) ==
  IF bytes = <<>> THEN <<>>
  ELSE LET n == Utf8SeqLen(bytes)
           char == IF n = 1 THEN Head(bytes) ELSE IF n = 2 THEN "eacute" ELSE "u9A69"
       IN  <<char>> \o DecodeUtf8(SubSeq(bytes, n + 1, Len(bytes)))

\* bytes.decode("latin-1"): every byte is the character of its number
DecodeLatin1(bytes) ==
  [i \in 1..Len(bytes) |->
     CASE bytes[i] = "xC3" -> "Atilde"
       [] bytes[i] = "xA9" -> "copy"
       [] bytes[i] = "xE9" -> "eacute"
       [] OTHER -> bytes[i]]

\* bytes.decode(encoding)
DecodeText(bytes, encoding) ==
  IF encoding = "utf-8" THEN DecodeUtf8(bytes) ELSE DecodeLatin1(bytes)

\* The page with every cell text decoded
DecodePage(page, encoding) ==
  [n \in 1..Len(page) |->
     [page[n] EXCEPT !.rows =
        [r \in 1..Len(page[n].rows) |->
           [c \in 1..Len(page[n].rows[r]) |->
              [page[n].rows[r][c] EXCEPT !.text = DecodeText(page[n].rows[r][c].text, encoding)]]]]]

PageUtf8Valid(page) ==
  \A n \in 1..Len(page) : \A c \in 1..Len(Cells(page[n])) : Utf8Valid(Cells(page[n])[c].text)

\* read_html_file that gives up on a decode error
ReadUtf8Only(file) ==
  IF file.open_error = "first" \/ ~PageUtf8Valid(file.page)
  THEN [html |-> None, opens |-> <<"utf-8">>, reported |-> TRUE]
  ELSE [html |-> Some(DecodePage(file.page, "utf-8")), opens |-> <<"utf-8">>, reported |-> FALSE]

\* The text read (None: the read failed), the encodings the file was opened
\* with, and whether an error was printed
read_html_file(file) ==
  IF file.open_error = "first"
  THEN [html |-> None, opens |-> <<"utf-8">>, reported |-> TRUE]
  ELSE IF PageUtf8Valid(file.page)
  THEN [html |-> Some(DecodePage(file.page, "utf-8")), opens |-> <<"utf-8">>, reported |-> FALSE]
  ELSE IF file.open_error = "second"
  THEN [html |-> None, opens |-> <<"utf-8", "latin-1">>, reported |-> TRUE]
  ELSE [html |-> Some(DecodePage(file.page, "latin-1")),
        opens |-> <<"utf-8", "latin-1">>, reported |-> FALSE]

\* rows_big + rows_small with the page's threat status attached to every row
RowsOfSoup(soup) ==
  LET threat == find_threat_status(soup)
      all_rows == parse_big_blocks(soup) \o parse_small_ffn_tables(soup)
  IN  [k \in 1..Len(all_rows) |->
         [Is_Small_ffn_gif |-> all_rows[k].Is_Small_ffn_gif,
          Thumbnail_File |-> all_rows[k].Thumbnail_File,
          Large_File |-> all_rows[k].Large_File,
          Camera_Equipment |-> all_rows[k].Camera_Equipment,
          Location_Date |-> all_rows[k].Location_Date,
          Sex_Age |-> all_rows[k].Sex_Age,
          Threat_Status |-> threat]]

parse_file(file) ==
  LET read == read_html_file(file)
  IN  [rows |-> IF read.html = None THEN <<>> ELSE RowsOfSoup(read.html[1]),
       opens |-> read.opens,
       reported |-> read.reported]

-----------------------------------------------------------------------------
(* File names, paths and the glob.  A path is written from the parent of   *)
(* the current folder: folder name, separator, file name.  The path of the *)
(* parent holds none of the characters * ? [                               *)

\* The characters of file names in code point order
CodePoints ==
  <<" ", "!", "*", "-", ".", "/">> \o <<"0","1","2","3","4","5","6","7","8","9">>
    \o <<":", "?">> \o UpperLetters \o <<"[", "\\", "]", "_">> \o LowerLetters

Ord(c) == CHOOSE i \in 1..Len(CodePoints) : CodePoints[i] = c

\* a < b for str
RECURSIVE StrLess(_, _)
StrLess(a, b) ==
  IF b = <<>> THEN FALSE
  ELSE IF a = <<>> THEN TRUE
  ELSE IF Head(a) # Head(b) THEN Ord(Head(a)) < Ord(Head(b))
  ELSE StrLess(Tail(a), Tail(b))

\* sorted(files): the files by path
RECURSIVE SortedFiles(_)
SortedFiles(fileset) ==
  IF fileset = {} THEN <<>>
  ELSE LET least == CHOOSE f \in fileset : \A g \in fileset \ {f} : StrLess(f.path, g.path)
       IN  <<least>> \o SortedFiles(fileset \ {least})

\* os.sep, and the characters that separate the parts of a path
Sep(nt) == IF nt THEN "\\" ELSE "/"
SepSet(nt) == IF nt THEN {"\\", "/"} ELSE {"/"}

\* The last position of the path that holds one of the characters (0: none)
LastOf(p, chars) ==
  LET at == {i \in 1..Len(p) : p[i] \in chars}
  IN  IF at = {} THEN 0 ELSE CHOOSE i \in at : \A j \in at : j <= i

\* The first position from a position on that holds a separator of
\* Windows (0: none)
FindSep(p, from) ==
  LET at == {i \in from..Len(p) : p[i] \in SepSet(TRUE)}
  IN  IF at = {} THEN 0 ELSE CHOOSE i \in at : \A j \in at : i <= j

\* ntpath.splitdrive(p)[0]: the length of the drive or UNC share of a path
DriveLen(p) ==
  IF Len(p) < 2 THEN 0
  ELSE IF p[1] \in SepSet(TRUE) /\ p[2] \in SepSet(TRUE)
  THEN LET head == [i \in 1..(IF Len(p) < 8 THEN Len(p) ELSE 8) |->
                      IF p[i] = "/" THEN "\\" ELSE p[i]]
           start == IF upper(head) = <<"\\", "\\", "?", "\\", "U", "N", "C", "\\">> THEN 8 ELSE 2
           index == FindSep(p, start + 1)
           index2 == IF index = 0 THEN 0 ELSE FindSep(p, index + 1)
       IN  IF index2 = 0 THEN Len(p) ELSE index2 - 1
  ELSE IF p[2] = ":" THEN 2
  ELSE 0

\* ntpath.join(a, b)
NtJoin(a, b) ==
  LET a_drive == SubSeq(a, 1, DriveLen(a))
      a_path == SubSeq(a, DriveLen(a) + 1, Len(a))
      b_drive == SubSeq(b, 1, DriveLen(b))
      b_path == SubSeq(b, DriveLen(b) + 1, Len(b))
      absolute == b_path # <<>> /\ b_path[1] \in SepSet(TRUE)
      other_drive == b_drive # <<>> /\ b_drive # a_drive
      drive == IF absolute THEN (IF b_drive # <<>> \/ a_drive = <<>> THEN b_drive ELSE a_drive)
               ELSE IF other_drive THEN b_drive
               ELSE a_drive
      joined == IF absolute \/ (other_drive /\ lower(b_drive) # lower(a_drive)) THEN b_path
              ELSE (IF a_path # <<>> /\ a_path[Len(a_path)] \notin SepSet(TRUE)
                    THEN Append(a_path, "\\") ELSE a_path) \o b_path
  IN  IF joined # <<>> /\ joined[1] \notin SepSet(TRUE) /\ drive # <<>> /\ drive[Len(drive)] # ":"
      THEN drive \o <<"\\">> \o joined
      ELSE drive \o joined

\* posixpath.join(a, b)
PosixJoin(a, b) ==
  IF b # <<>> /\ b[1] = "/" THEN b
  ELSE IF a = <<>> \/ a[Len(a)] = "/" THEN a \o b
  ELSE a \o <<"/">> \o b

\* os.path.join of two paths
PathJoin(dir, name, nt) == IF nt THEN NtJoin(dir, name) ELSE PosixJoin(dir, name)

\* os.path.basename(path): what follows the last separator (on Windows, of
\* the path without its drive)
basename(p, nt) ==
  LET rest == IF nt THEN SubSeq(p, DriveLen(p) + 1, Len(p)) ELSE p
  IN  SubSeq(rest, LastOf(rest, SepSet(nt)) + 1, Len(rest))

\* os.path.normcase(s): on Windows, ntpath's s.replace("/", "\\").lower()
normcase(s, nt) ==
  IF nt THEN lower([i \in 1..Len(s) |-> IF s[i] = "/" THEN "\\" ELSE s[i]]) ELSE s

\* glob.has_magic(s) and glob._ishidden(name)
has_magic(s) == \E i \in 1..Len(s) : s[i] \in {"*", "?", "["}
_ishidden(name) == name[1] = "."

\* fnmatch.translate: the pieces of a pattern
FnStar == [kind |-> "star", c |-> "", neg |-> FALSE, toks |-> <<>>]
FnAny == [kind |-> "any", c |-> "", neg |-> FALSE, toks |-> <<>>]
FnNever == [kind |-> "never", c |-> "", neg |-> FALSE, toks |-> <<>>]
FnLit(c) == [kind |-> "lit", c |-> c, neg |-> FALSE, toks |-> <<>>]
FnSet(neg, toks) == [kind |-> "set", c |-> "", neg |-> neg, toks |-> toks]

\* The position of the "]" that closes the bracket whose first character
\* is at i (Len(pat) + 1: the bracket is not closed)
RECURSIVE SkipToBracket(_, _)
SkipToBracket(pat, j) ==
  IF j > Len(pat) \/ pat[j] = "]" THEN j ELSE SkipToBracket(pat, j + 1)

BracketEnd(pat, i) ==
  LET j1 == IF i <= Len(pat) /\ pat[i] = "!" THEN i + 1 ELSE i
      j2 == IF j1 <= Len(pat) /\ pat[j1] = "]" THEN j1 + 1 ELSE j1
  IN  SkipToBracket(pat, j2)

\* pat.find('-', k, j): 0 when there is none
FindHyphen(pat, k, j) ==
  LET at == {h \in k..(j - 1) : h <= Len(pat) /\ pat[h] = "-"}
  IN  IF at = {} THEN 0 ELSE CHOOSE h \in at : \A g \in at : h <= g

\* The chunks between the hyphens that make ranges
RECURSIVE RangeChunks(_, _, _, _)
RangeChunks(pat, i, k, j) ==
  LET h == FindHyphen(pat, k, j)
  IN  IF h = 0 THEN <<SubSeq(pat, i, j - 1)>>
      ELSE <<SubSeq(pat, i, h - 1)>> \o RangeChunks(pat, h + 1, h + 3, j)

\* An empty last chunk: the hyphen before it is a character of the set
CloseChunks(chunks) ==
  LET n == Len(chunks)
  IN  IF chunks[n] # <<>> THEN chunks
      ELSE SubSeq(chunks, 1, n - 2) \o <<chunks[n - 1] \o <<"-">>>>

\* Remove empty ranges, from the last chunk down
RECURSIVE DropEmptyRanges(_, _)
DropEmptyRanges(chunks, k) ==
  IF k < 2 THEN chunks
  ELSE LET a == chunks[k - 1]
           b == chunks[k]
       IN  IF Ord(a[Len(a)]) > Ord(b[1])
           THEN DropEmptyRanges(SubSeq(chunks, 1, k - 2)
                                  \o <<SubSeq(a, 1, Len(a) - 1) \o Tail(b)>>
                                  \o SubSeq(chunks, k + 1, Len(chunks)), k - 1)
           ELSE DropEmptyRanges(chunks, k - 1)

\* The characters of the set as the regular expression holds them: range
\* marks the hyphen that joins two chunks, every other character is itself
ChunkTokens(chunk) == [i \in 1..Len(chunk) |-> [c |-> chunk[i], range |-> FALSE]]

RECURSIVE JoinChunks(_)
JoinChunks(chunks) ==
  IF chunks = <<>> THEN <<>>
  ELSE IF Len(chunks) = 1 THEN ChunkTokens(chunks[1])
  ELSE ChunkTokens(chunks[1]) \o <<[c |-> "-", range |-> TRUE]>> \o JoinChunks(Tail(chunks))

BracketTokens(pat, i, j) ==
  IF \A h \in i..(j - 1) : pat[h] # "-" THEN ChunkTokens(SubSeq(pat, i, j - 1))
  ELSE LET chunks == CloseChunks(RangeChunks(pat, i, IF pat[i] = "!" THEN i + 2 ELSE i + 1, j))
       IN  JoinChunks(DropEmptyRanges(chunks, Len(chunks)))

BracketElem(toks) ==
  IF toks = <<>> THEN FnNever
  ELSE IF toks = <<[c |-> "!", range |-> FALSE]>> THEN FnAny
  ELSE IF toks[1].c = "!" THEN FnSet(TRUE, Tail(toks))
  ELSE FnSet(FALSE, toks)

RECURSIVE FnElems(_, _)
FnElems(pat, i) ==
  IF i > Len(pat) THEN <<>>
  ELSE IF pat[i] = "*" THEN <<FnStar>> \o FnElems(pat, i + 1)
  ELSE IF pat[i] = "?" THEN <<FnAny>> \o FnElems(pat, i + 1)
  ELSE IF pat[i] = "["
       THEN LET j == BracketEnd(pat, i + 1)
            IN  IF j > Len(pat) THEN <<FnLit("[")>> \o FnElems(pat, i + 1)
                ELSE <<BracketElem(BracketTokens(pat, i + 1, j))>> \o FnElems(pat, j + 1)
  ELSE <<FnLit(pat[i])>> \o FnElems(pat, i + 1)

\* The character is in the set [toks], read from token k on as re reads it
RECURSIVE InSetTokens(_, _, _)
InSetTokens(toks, k, ch) ==
  IF k > Len(toks) THEN FALSE
  ELSE IF k + 1 <= Len(toks) /\ toks[k + 1].range
       THEN IF k + 2 > Len(toks) THEN ch \in {toks[k].c, "-"}
            ELSE \/ Ord(toks[k].c) <= Ord(ch) /\ Ord(ch) <= Ord(toks[k + 2].c)
                 \/ InSetTokens(toks, k + 3, ch)
       ELSE ch = toks[k].c \/ InSetTokens(toks, k + 1, ch)

FnCharMatches(e, ch) ==
  CASE e.kind = "any" -> TRUE
    [] e.kind = "lit" -> ch = e.c
    [] e.kind = "set" -> InSetTokens(e.toks, 1, ch) # e.neg
    [] OTHER -> FALSE

\* The ends of the matches of one piece that start at an offset of P
FnStep(e, name, P) ==
  IF e.kind = "star" THEN {q \in 0..Len(name) : \E p \in P : p <= q}
  ELSE {p + 1 : p \in {q \in P : q < Len(name) /\ FnCharMatches(e, name[q + 1])}}

RECURSIVE FnEnds(_, _, _, _)
FnEnds(elems, k, name, P) ==
  IF k > Len(elems) THEN P ELSE FnEnds(elems, k + 1, name, FnStep(elems[k], name, P))

\* fnmatch.fnmatchcase(name, pat)
fnmatchcase(name, pat) == Len(name) \in FnEnds(FnElems(pat, 1), 1, name, {0})

\* glob._glob1: the entries of a directory whose names match the pattern
_glob1(entries, pattern, nt) ==
  {e \in entries : /\ _ishidden(pattern) \/ ~_ishidden(e.name)
                   /\ fnmatchcase(normcase(e.name, nt), normcase(pattern, nt))}

\* The directories glob looks in: the current folder, or, when its name
\* holds a * ? or [, the directories beside it that match that name
GlobDirs(here, ds, nt) ==
  IF has_magic(here) THEN _glob1(ds, here, nt) ELSE {d \in ds : d.name = here}

\* [f for f in glob.glob(pattern) if os.path.isfile(f)], the pattern the
\* path of the current folder joined with "Fotos_*.html"
ListFiles(here, ds, nt) ==
  UNION { { [path |-> PathJoin(d.name, f.name, nt), page |-> f.page,
             open_error |-> f.open_error] :
              f \in {g \in _glob1(d.entries, <<"F", "o", "t", "o", "s", "_", "*", ".", "h", "t", "m", "l">>, nt) : g.is_file} } :
          d \in GlobDirs(here, ds, nt) }

\* get_current_folder_name() + "_Image_Listing.xlsx"
OutName(here) == (IF here = <<>> THEN <<"I", "m", "a", "g", "e", "_", "L", "i", "s", "t", "i", "n", "g">> ELSE here) \o <<"_", "I", "m", "a", "g", "e", "_", "L", "i", "s", "t", "i", "n", "g", ".", "x", "l", "s", "x">>

\* os.path.splitext(p)[0]: the path up to the last dot of its last part,
\* unless only dots stand before that dot in the part
SplitextBase(p, nt) ==
  LET sepIndex == LastOf(p, SepSet(nt))
      dotIndex == LastOf(p, {"."})
  IN  IF dotIndex > sepIndex /\ \E k \in (sepIndex + 1)..(dotIndex - 1) : p[k] # "."
      THEN SubSeq(p, 1, dotIndex - 1)
      ELSE p

\* base.rsplit("Fotos_", 1)[1]: what follows the last "Fotos_"
SpeciesAfterLast(base) ==
  LET at == {i \in 0..(Len(base) - 6) : SubSeq(base, i + 1, i + 6) = <<"F", "o", "t", "o", "s", "_">>}
      last == CHOOSE i \in at : \A j \in at : j <= i
  IN  SubSeq(base, last + 7, Len(base))

\* base.split("Fotos_", 1)[1]: what follows the first "Fotos_"
SpeciesOf(base) ==
  LET at == {i \in 0..(Len(base) - 6) : SubSeq(base, i + 1, i + 6) = <<"F", "o", "t", "o", "s", "_">>}
      first == CHOOSE i \in at : \A j \in at : i <= j
  IN  SubSeq(base, first + 7, Len(base))

-----------------------------------------------------------------------------
(* main() *)

COLUMNS ==
  <<"Species_ID", "Slug", "Subspecies_ID", "Slide", "Cover", "Thumbnail_Filename",
    "Large_Filename", "Equipment", "Sex_Age", "Location", "Province", "Country",
    "Date", "Location_Date", "Threat_Status">>

Message(msg, name, n) == [msg |-> msg, name |-> name, n |-> n]

\* r_out for a row of a file of the species
OutRecord(r, slug) ==
  [Species_ID |-> <<>>,
   Slug |-> slug,
   Subspecies_ID |-> <<>>,
   Slide |-> r.Is_Small_ffn_gif,
   Cover |-> <<>>,
   Thumbnail_Filename |-> r.Thumbnail_File,
   Large_Filename |-> r.Large_File,
   Equipment |-> r.Camera_Equipment,
   Sex_Age |-> r.Sex_Age,
   Location |-> <<>>,
   Province |-> <<>>,
   Country |-> <<>>,
   Date |-> <<>>,
   Location_Date |-> r.Location_Date,
   Threat_Status |-> r.Threat_Status]

\* The records of the rows whose thumbnail ends in .jpg
RECURSIVE OutRecords(_, _)
OutRecords(rs, slug) ==
  IF rs = <<>> THEN <<>>
  ELSE (IF endswith_jpg(Some(Head(rs).Thumbnail_File))
        THEN <<OutRecord(Head(rs), slug)>> ELSE <<>>)
         \o OutRecords(Tail(rs), slug)

\* No matching file: report and return 0
MainNoFiles ==
  /\ pc = "start"
  /\ ListFiles(cwd, dirs, on_nt) = {}
  /\ files' = {}
  /\ stdout' = Append(stdout, Message("no_files", <<>>, 0))
  /\ exit_code' = Some(0)
  /\ pc' = "done"
  /\ UNCHANGED <<cwd, dirs, on_nt, path, todo, filename, species, rows, records, opens, worksheet, written>>
  /\ UNCHANGED <<tvars, bvars, svars>>

\* The files are listed, counted and sorted
MainStart ==
  /\ pc = "start"
  /\ ListFiles(cwd, dirs, on_nt) # {}
  /\ files' = ListFiles(cwd, dirs, on_nt)
  /\ stdout' = Append(stdout, Message("found", <<>>, Cardinality(files')))
  /\ todo' = SortedFiles(files')
  /\ pc' = "loop"
  /\ UNCHANGED <<cwd, dirs, on_nt, path, filename, species, rows, records, opens, worksheet, written, exit_code>>
  /\ UNCHANGED <<tvars, bvars, svars>>

\* A file whose base name does not start with "Fotos_": continue
SkipFile ==
  /\ pc = "loop"
  /\ todo # <<>>
  /\ ~StartsWith(SplitextBase(basename(Head(todo).path, on_nt), on_nt), <<"F", "o", "t", "o", "s", "_">>)
  /\ path' = Head(todo).path
  /\ filename' = basename(Head(todo).path, on_nt)
  /\ todo' = Tail(todo)
  /\ UNCHANGED <<cwd, dirs, on_nt, files, pc, species, rows, records, stdout, opens, worksheet, written, exit_code>>
  /\ UNCHANGED <<tvars, bvars, svars>>

\* One pass of the loop: parse the file and append its records (parsed and
\* slug are the values of the two calls, each made once)
ProcessFile ==
  /\ pc = "loop"
  /\ todo # <<>>
  /\ StartsWith(SplitextBase(basename(Head(todo).path, on_nt), on_nt), <<"F", "o", "t", "o", "s", "_">>)
  /\ \E parsed \in {parse_file(Head(todo))},
        slug \in {SpeciesOf(SplitextBase(basename(Head(todo).path, on_nt), on_nt))} :
       /\ path' = Head(todo).path
       /\ filename' = basename(Head(todo).path, on_nt)
       /\ species' = slug
       /\ rows' = parsed.rows
       /\ records' = records \o OutRecords(parsed.rows, slug)
       /\ opens' = opens \o [k \in 1..Len(parsed.opens) |->
                               [name |-> Head(todo).path, encoding |-> parsed.opens[k]]]
       /\ stdout' = stdout \o <<Message("processing", basename(Head(todo).path, on_nt), 0)>>
                      \o (IF parsed.reported
                          THEN <<Message("error", Head(todo).path, 0)>> ELSE <<>>)
  /\ todo' = Tail(todo)
  /\ UNCHANGED <<cwd, dirs, on_nt, files, pc, worksheet, written, exit_code>>
  /\ UNCHANGED <<tvars, bvars, svars>>

\* df.to_excel(writer, index=False, startrow=0): the header in row 1, the
\* records below it, from column 1
ToExcel(recs) ==
  [cell \in (1..(Len(recs) + 1)) \X (1..Len(COLUMNS)) |->
     IF cell[1] = 1 THEN COLUMNS[cell[2]] ELSE recs[cell[1] - 1][COLUMNS[cell[2]]]]

\* worksheet.insert_cols(idx): the cells from column idx on move one column right
insert_cols(cells, idx) ==
  [cell \in {<<c[1], IF c[2] >= idx THEN c[2] + 1 ELSE c[2]>> : c \in DOMAIN cells} |->
     cells[<<cell[1], IF cell[2] > idx THEN cell[2] - 1 ELSE cell[2]>>]]

\* insert_rows that inserts nothing
KeepRows(cells, idx) == cells

\* worksheet.insert_rows(idx): the cells from row idx on move one row down
insert_rows(cells, idx) ==
  [cell \in {<<IF c[1] >= idx THEN c[1] + 1 ELSE c[1], c[2]>> : c \in DOMAIN cells} |->
     cells[<<IF cell[1] > idx THEN cell[1] - 1 ELSE cell[1], cell[2]>>]]

\* No record: report and return 0
ReportNoRecords ==
  /\ pc = "loop"
  /\ todo = <<>>
  /\ records = <<>>
  /\ stdout' = Append(stdout, Message("no_records", <<>>, 0))
  /\ exit_code' = Some(0)
  /\ pc' = "done"
  /\ UNCHANGED <<cwd, dirs, on_nt, path, files, todo, filename, species, rows, records, opens, worksheet, written>>
  /\ UNCHANGED <<tvars, bvars, svars>>

WriteWorkbook ==
  /\ pc = "loop"
  /\ todo = <<>>
  /\ records # <<>>
  /\ worksheet' = insert_rows(insert_cols(ToExcel(records), 1), 1)
  /\ written' = TRUE
  /\ stdout' = stdout \o <<Message("wrote", PathJoin(cwd, OutName(cwd), on_nt), Len(records)),
                             Message("structure", <<>>, 0)>>
  /\ exit_code' = Some(0)
  /\ pc' = "done"
  /\ UNCHANGED <<cwd, dirs, on_nt, path, files, todo, filename, species, rows, records, opens>>
  /\ UNCHANGED <<tvars, bvars, svars>>

MainNext ==
  \/ MainNoFiles
  \/ MainStart
  \/ SkipFile
  \/ ProcessFile
  \/ ReportNoRecords
  \/ WriteWorkbook

-----------------------------------------------------------------------------
(* Where main() is run: a current folder of up to MaxFiles entries, each a *)
(* file with one of the pages below and one of the ways its read can fail, *)
(* or a directory; the name of the folder, with or without a character the *)
(* glob reads as a pattern; the directories beside it; the platform.       *)

MaxFiles == 2

FileNames ==
  {<<"F", "o", "t", "o", "s", "_", "a", ".", "h", "t", "m", "l">>, <<"F", "o", "t", "o", "s", "_", "B", ".", "h", "t", "m", "l">>, <<"F", "o", "t", "o", "s", "_", "F", "o", "t", "o", "s", "_", "c", ".", "h", "t", "m", "l">>, <<"f", "o", "t", "o", "s", "_", "d", ".", "h", "t", "m", "l">>, <<"F", "o", "t", "o", "s", "_", "e", ".", "h", "t", "m">>}

ThreatHeaderTable == Table(None, None, << <<TextCell(<<"G", "l", "o", "b", "a", "l", "l", "y", " ", " ", "t", "h", "r", "e", "a", "t", "e", "n", "e", "d", " ", "s", "p", "e", "c", "i", "e", "s">>)>> >>)

StatusTable ==
  Table(None, Some(<<"1">>),
        << <<TextCell(<<"-">>), TextCell(<<"N", "e", "a", "r", "-", "t", "h", "r", "e", "a", "t", "e", "n", "e", "d">>)>>,
           <<TextCell(<<"X">>), TextCell(<<"V", "u", "l", "n", "e", "r", "a", "b", "l", "e">>)>>,
           <<TextCell(<<"-">>), TextCell(<<"E", "n", "d", "a", "n", "g", "e", "r", "e", "d">>)>> >>)

\* A gallery page: a status table, a stage label, a big image block with
\* its equipment and location tables (the equipment in UTF-8)
GalleryPage ==
  << ThreatHeaderTable, StringNode, StatusTable, OtherTag,
     Table(None, None, << <<TextCell(<<"M", "a", "l", "e">>)>> >>),
     Table(Some(<<"8", "0", "0">>), Some(<<"9">>),
           << <<Cell(None, None, <<>>, Some(<<"b", "i", "g", "_", "a", ".", "j", "p", "g">>), Some(<<"a", ".", "j", "p", "g">>), TRUE)>> >>),
     Table(Some(<<"8", "0", "0">>), Some(<<"1">>), << <<TextCell(<<"C", "a", "f", "xC3", "xA9", " ", "7", "D">>)>> >>),
     Table(Some(<<"8", "0", "0">>), Some(<<"1">>), << <<TextCell(<<"L", "a", "k", "e", "nl", " ", "2", "0", "1", "9">>)>> >>) >>

\* A contact sheet, the status marked in the header table itself
SheetPage ==
  << Table(None, None,
           << <<TextCell(<<"G", "l", "o", "b", "a", "l", "l", "y", " ", "t", "h", "r", "e", "a", "t", "e", "n", "e", "d", " ", "s", "p", "e", "c", "i", "e", "s">>), TextCell(<<"N", "e", "a", "r", " ", "t", "h", "r", "e", "a", "t", "e", "n", "e", "d", " ", ":", " ", "X">>)>> >>),
     StringNode,
     Table(None, None, << <<TextCell(<<"J", "u", "v", "e", "n", "i", "l", "e">>)>> >>),
     Table(Some(<<"6", "0", "0">>), Some(<<"0">>),
           << <<TextCell(<<"L", "a", "k", "e", " ", "2", "0", "1", "9">>), TextCell(<<"H", "i", "l", "l", " ", "2", "0", "2", "0">>)>>,
              <<Cell(Some(<<"f", "f", "n", ".", "g", "i", "f">>), None, <<>>, Some(<<"b", "i", "g", "_", "c", "1", ".", "j", "p", "g">>), Some(<<"c", "1", ".", "j", "p", "g">>), TRUE),
                Cell(Some(<<".", ".", "/", "f", "f", "n", ".", "g", "i", "f">>), None, <<>>, Some(<<"c", "2", ".", "h", "t", "m", "l">>), Some(<<"c", "2", ".", "j", "p", "g">>), FALSE)>> >>) >>

\* A page without a big image table and without an ffn.gif cell
NoImagesPage ==
  << ThreatHeaderTable, StatusTable,
     Table(Some(<<"6", "0", "0">>), Some(<<"0">>), << <<TextCell(<<"L", "i", "n", "k", "s">>)>> >>),
     Table(Some(<<"8", "0", "0">>), Some(<<"5">>),
           << <<Cell(None, None, <<>>, None, Some(<<"n", ".", "j", "p", "g">>), FALSE)>> >>) >>

\* Images whose src does not end in .jpg: in a big image table ahead of a
\* .jpg image, alone in an 800-wide frame, and in ffn.gif cells
NonJpgPage ==
  << Table(Some(<<"8", "0", "0">>), Some(<<"9">>),
           << <<Cell(None, None, <<>>, Some(<<"b", "i", "g", "_", "x", ".", "j", "p", "g">>), Some(<<"x", ".", "g", "i", "f">>), TRUE),
                Cell(None, None, <<>>, None, Some(<<"y", ".", "j", "p", "g">>), FALSE)>> >>),
     Table(Some(<<"8", "0", "0">>), Some(<<"9">>),
           << <<Cell(None, None, <<>>, None, Some(<<"b", "a", "r", ".", "g", "i", "f">>), FALSE)>> >>),
     Table(Some(<<"6", "0", "0">>), Some(<<"0">>),
           << <<Cell(Some(<<"f", "f", "n", ".", "g", "i", "f">>), None, <<>>, Some(<<"b", "i", "g", "_", "z", ".", "j", "p", "g">>), Some(<<"z", ".", "J", "P", "G">>), TRUE),
                Cell(Some(<<"f", "f", "n", ".", "g", "i", "f">>), None, <<>>, None, Some(<<>>), FALSE),
                Cell(Some(<<"f", "f", "n", ".", "g", "i", "f">>), None, <<>>, None, None, FALSE)>> >>) >>

\* A big image block whose equipment table is written in Latin-1
LatinPage ==
  << Table(Some(<<"8", "0", "0">>), Some(<<" ", "1", "_", "2", " ">>),
           << <<Cell(None, None, <<>>, None, Some(<<"b", ".", "j", "p", "g">>), FALSE)>> >>),
     Table(Some(<<"8", "0", "0">>), Some(<<"1">>), << <<TextCell(<<"C", "a", "f", "xE9">>)>> >>) >>

FileChoices ==
  { [page |-> GalleryPage, open_error |-> "none", is_file |-> TRUE],
    [page |-> GalleryPage, open_error |-> "first", is_file |-> TRUE],
    [page |-> SheetPage, open_error |-> "none", is_file |-> TRUE],
    [page |-> NoImagesPage, open_error |-> "none", is_file |-> TRUE],
    [page |-> NonJpgPage, open_error |-> "none", is_file |-> TRUE],
    [page |-> LatinPage, open_error |-> "none", is_file |-> TRUE],
    [page |-> LatinPage, open_error |-> "second", is_file |-> TRUE] }

Directory == [page |-> <<>>, open_error |-> "none", is_file |-> FALSE]

\* What an entry of each name may be.  The last two names are never read
\* (the loop skips the one, the glob does not list the other).
ChoicesOf(name) ==
  IF name = <<"F", "o", "t", "o", "s", "_", "a", ".", "h", "t", "m", "l">> THEN FileChoices
  ELSE IF name = <<"F", "o", "t", "o", "s", "_", "B", ".", "h", "t", "m", "l">>
  THEN {c \in FileChoices : c.page = GalleryPage \/ c.open_error = "second"} \cup {Directory}
  ELSE IF name = <<"F", "o", "t", "o", "s", "_", "F", "o", "t", "o", "s", "_", "c", ".", "h", "t", "m", "l">>
  THEN {c \in FileChoices : c.page \in {SheetPage, NoImagesPage}}
  ELSE IF name = <<"f", "o", "t", "o", "s", "_", "d", ".", "h", "t", "m", "l">>
  THEN {c \in FileChoices : (c.page = GalleryPage /\ c.open_error = "none") \/ c.open_error = "second"}
  ELSE {c \in FileChoices : c.page = SheetPage}

Folders ==
  UNION { { { [name |-> n, page |-> choice[n].page, open_error |-> choice[n].open_error,
               is_file |-> choice[n].is_file] : n \in names } :
              choice \in {c \in [names -> FileChoices \cup {Directory}] :
                            \A n \in names : c[n] \in ChoicesOf(n)} } :
          names \in {s \in SUBSET FileNames : Cardinality(s) <= MaxFiles} }

\* The names of the current folder: plain, with a character class, with a star
CwdNames == {<<"g">>, <<"g", "[", "x", "]">>, <<"g", "*">>}

\* The directories beside the current folder: none, or one with a gallery page
SiblingSets ==
  { {},
    { [name |-> <<"g", "x">>,
       entries |-> { [name |-> <<"F", "o", "t", "o", "s", "_", "a", ".", "h", "t", "m", "l">>, page |-> GalleryPage,
                      open_error |-> "none", is_file |-> TRUE] }] } }

\* No directory of Windows has a * in its name
Trees ==
  { [cwd |-> t[1], dirs |-> {[name |-> t[1], entries |-> t[2]]} \cup t[3], nt |-> t[4]] :
      t \in {u \in CwdNames \X Folders \X SiblingSets \X BOOLEAN :
               u[4] => \A i \in 1..Len(u[1]) : u[1][i] # "*"} }

-----------------------------------------------------------------------------
(* What the properties of main() are stated with *)

\* The listed file of a path, and its name
FileAt(p) == CHOOSE f \in files : f.path = p
NameOf(f) == basename(f.path, on_nt)

\* The entries of the current folder
CwdEntries == (CHOOSE d \in dirs : d.name = cwd).entries

\* The file is one the loop parses, and the one it parsed last
IsParsedName(name) == name # <<>> /\ StartsWith(name, <<"F", "o", "t", "o", "s", "_">>)

\* The file cannot be read: its first open fails, or it is no UTF-8 and
\* its second open fails
ReadFails(f) ==
  \/ f.open_error = "first"
  \/ f.open_error = "second" /\ ~PageUtf8Valid(f.page)

\* The page as decoded: as UTF-8, and as Latin-1 when it is no UTF-8
DecodedPage(f) ==
  IF PageUtf8Valid(f.page) THEN DecodePage(f.page, "utf-8")
  ELSE DecodePage(f.page, "latin-1")

\* The image sources of a page
ImageSources(page) ==
  UNION { {Cells(page[n])[c].img_src[1] :
             c \in {i \in 1..Len(Cells(page[n])) : Cells(page[n])[i].img_src # None}} :
          n \in 1..Len(page) }

(* C1: every row parse_file returns and every output record has a          *)
(* thumbnail file name that is not empty, ends in ".jpg" and is the src of *)
(* an image of a file that was listed.                                     *)
ThumbnailsEndInJpg ==
  /\ \A k \in 1..Len(rows) :
       /\ rows[k].Thumbnail_File # <<>>
       /\ EndsWith(rows[k].Thumbnail_File, <<".", "j", "p", "g">>)
  /\ \A k \in 1..Len(records) :
       /\ records[k].Thumbnail_Filename # <<>>
       /\ EndsWith(records[k].Thumbnail_Filename, <<".", "j", "p", "g">>)
       /\ \E f \in files : records[k].Thumbnail_Filename \in ImageSources(f.page)

\* A page with images that are no .jpg was parsed and gave no record, a
\* page parsed before it gave one
ThumbnailsEndInJpgWitness ==
  /\ pc = "done"
  /\ filename = <<"F", "o", "t", "o", "s", "_", "a", ".", "h", "t", "m", "l">>
  /\ FileAt(path).page = NonJpgPage
  /\ rows = <<>>
  /\ Len(records) = 1
  /\ records[1].Thumbnail_Filename = <<"a", ".", "j", "p", "g">>

NoMatchingTables(page) ==
  \A n \in 1..Len(page) : ~is_big_image_table(page[n]) /\ ~HasFfnCells(page[n])

(* C3: a readable file without a big image table and without an ffn.gif    *)
(* table gives no row and no error message; when the current folder holds  *)
(* no file named Fotos_*.html, or when no record was collected, main()     *)
(* reports it, writes no workbook and returns 0.                           *)
NothingToWriteIsReported ==
  /\ (pc \in {"loop", "done"} /\ IsParsedName(filename)
        /\ ~ReadFails(FileAt(path))
        /\ NoMatchingTables(DecodedPage(FileAt(path)))) =>
       /\ rows = <<>>
       /\ \A k \in 1..Len(stdout) : stdout[k] # Message("error", path, 0)
  /\ (pc = "done"
        /\ (records = <<>>
              \/ \A e \in CwdEntries : ~(e.is_file /\ fnmatchcase(e.name, <<"F", "o", "t", "o", "s", "_", "*", ".", "h", "t", "m", "l">>)))) =>
       /\ stdout[Len(stdout)].msg \in {"no_files", "no_records"}
       /\ ~written
       /\ worksheet = <<>>
       /\ exit_code = Some(0)
  /\ pc # "done" => exit_code = None /\ ~written

\* The files the loop parses, in its order
ParsedFiles(fileset) ==
  LET sorted == SortedFiles(fileset)
      parsed == {i \in 1..Len(sorted) : StartsWith(SplitextBase(NameOf(sorted[i]), on_nt), <<"F", "o", "t", "o", "s", "_">>)}
      order == Ascending(parsed)
  IN  [k \in 1..Len(order) |-> sorted[order[k]]]

\* The records of listed files all of which can be read
RecordsOfReadable(fileset) ==
  LET parsed == ParsedFiles(fileset)
  IN  Flatten([k \in 1..Len(parsed) |->
                 OutRecords(RowsOfSoup(DecodedPage(parsed[k])),
                            SubSeq(NameOf(parsed[k]), 7, Len(NameOf(parsed[k])) - 5))])

ExpectedOpens(f) ==
  <<[name |-> f.path, encoding |-> "utf-8"]>>
    \o (IF f.open_error # "first" /\ ~PageUtf8Valid(f.page)
        THEN <<[name |-> f.path, encoding |-> "latin-1"]>> ELSE <<>>)

(* C4: every file is opened as UTF-8 and, only on a decode error, again as *)
(* Latin-1; a file whose read fails is reported, and the records are those *)
(* of the listed files without those whose read fails.                     *)
ReadErrorSkipsOnlyTheFile ==
  pc = "done" =>
    /\ opens = Flatten([k \in 1..Len(ParsedFiles(files)) |-> ExpectedOpens(ParsedFiles(files)[k])])
    /\ \A f \in {g \in files : StartsWith(NameOf(g), <<"F", "o", "t", "o", "s", "_">>)} :
         ReadFails(f) <=> \E k \in 1..Len(stdout) : stdout[k] = Message("error", f.path, 0)
    /\ records = RecordsOfReadable({f \in files : ~ReadFails(f)})

\* The first file's second open fails; the second file is read as Latin-1
ReadErrorWitness ==
  /\ pc = "done"
  /\ \E f \in files : NameOf(f) = <<"F", "o", "t", "o", "s", "_", "B", ".", "h", "t", "m", "l">> /\ f.open_error = "second"
  /\ \E f \in files : NameOf(f) = <<"F", "o", "t", "o", "s", "_", "a", ".", "h", "t", "m", "l">> /\ f.page = LatinPage /\ f.open_error = "none"
  /\ Len(records) = 1
  /\ records[1].Slug = <<"a">>
  /\ records[1].Equipment = <<"C", "a", "f", "eacute">>
  /\ Len(opens) = 4

(* C6: the records of the file parsed last all carry the slug of that      *)
(* file's name (the name without "Fotos_" and ".html") and the one threat  *)
(* status of that file's page; the records before them are unchanged.      *)
RecordsCarryTheirFile ==
  (pc \in {"loop", "done"} /\ IsParsedName(filename)) =>
    LET f == FileAt(path)
        n == Len(rows)
        before == Len(records) - n
    IN  /\ before >= 0
        /\ species = SubSeq(filename, 7, Len(filename) - 5)
        /\ \A k \in 1..n :
             /\ records[before + k].Slug = SubSeq(filename, 7, Len(filename) - 5)
             /\ records[before + k].Threat_Status = find_threat_status(DecodedPage(f))
             /\ records[before + k].Thumbnail_Filename = rows[k].Thumbnail_File
        /\ \A k \in 1..before :
             \E g \in files :
               /\ StrLess(g.path, path)
               /\ records[k].Slug = SubSeq(NameOf(g), 7, Len(NameOf(g)) - 5)
               /\ records[k].Threat_Status = find_threat_status(DecodedPage(g))

\* Two files with different statuses; the second name holds "Fotos_" twice
RecordsCarryTheirFileWitness ==
  /\ pc = "done"
  /\ Len(records) = 3
  /\ records[1].Slug = <<"B">> /\ records[1].Threat_Status = "Vulnerable"
  /\ records[2].Slug = <<"F", "o", "t", "o", "s", "_", "c">> /\ records[2].Threat_Status = "Near-threatened"
  /\ records[3].Slug = <<"F", "o", "t", "o", "s", "_", "c">> /\ records[3].Threat_Status = "Near-threatened"

(* C7: with n records the worksheet has no cell in row 1 and none in       *)
(* column A, the 15 headers in row 2 from column B to column P, and record *)
(* k in row k + 2, in the order of the records.                            *)
WorksheetLayout ==
  (pc = "done" /\ records # <<>>) =>
    /\ written
    /\ DOMAIN worksheet = (2..(Len(records) + 2)) \X (2..16)
    /\ \A c \in 1..15 : worksheet[<<2, c + 1>>] = COLUMNS[c]
    /\ \A k \in 1..Len(records) :
         \A c \in 1..15 : worksheet[<<k + 2, c + 1>>] = records[k][COLUMNS[c]]

WorksheetLayoutWitness ==
  /\ pc = "done"
  /\ Len(records) = 3
  /\ worksheet[<<2, 3>>] = "Slug"
  /\ worksheet[<<3, 7>>] = <<"a", ".", "j", "p", "g">>
  /\ worksheet[<<5, 7>>] = <<"c", "2", ".", "j", "p", "g">>

-----------------------------------------------------------------------------
(* Specifications.  Each runs one group of operations; the variables of    *)
(* the other groups stay at their idle values.                             *)

vars == <<tvars, bvars, svars, mvars>>

\* main() on a folder
Init ==
  /\ \E tree \in Trees : cwd = tree.cwd /\ dirs = tree.dirs /\ on_nt = tree.nt
  /\ files = {}
  /\ pc = "start"
  /\ todo = <<>>
  /\ path = <<>>
  /\ filename = <<>>
  /\ species = <<>>
  /\ rows = <<>>
  /\ records = <<>>
  /\ stdout = <<>>
  /\ opens = <<>>
  /\ worksheet = <<>>
  /\ written = FALSE
  /\ exit_code = None
  /\ t_text = <<>>
  /\ t_input = <<>>
  /\ t_label = ""
  /\ t_first = ""
  /\ t_pc = "idle"
  /\ b_sibs = <<>>
  /\ b_start = 0
  /\ b_found = [sib |-> 0, count |-> 0]
  /\ b_stage = <<>>
  /\ b_follow = <<>>
  /\ b_rows = <<>>
  /\ b_pc = "idle"
  /\ s_soup = <<>>
  /\ s_rows = <<>>
  /\ s_pc = "idle"

Next == MainNext

Spec == Init /\ [][Next]_vars

\* _match_threat_in_text on a text
ThreatInit ==
  /\ t_text \in ThreatTexts
  /\ t_input = t_text
  /\ t_label = ""
  /\ t_first = ""
  /\ t_pc = "input"
  /\ b_sibs = <<>>
  /\ b_start = 0
  /\ b_found = [sib |-> 0, count |-> 0]
  /\ b_stage = <<>>
  /\ b_follow = <<>>
  /\ b_rows = <<>>
  /\ b_pc = "idle"
  /\ s_soup = <<>>
  /\ s_rows = <<>>
  /\ s_pc = "idle"
  /\ cwd = <<>>
  /\ dirs = {}
  /\ on_nt = FALSE
  /\ files = {}
  /\ pc = "idle"
  /\ todo = <<>>
  /\ path = <<>>
  /\ filename = <<>>
  /\ species = <<>>
  /\ rows = <<>>
  /\ records = <<>>
  /\ stdout = <<>>
  /\ opens = <<>>
  /\ worksheet = <<>>
  /\ written = FALSE
  /\ exit_code = None

SpecThreat == ThreatInit /\ [][ThreatNext]_vars

\* The sibling lookups and parse_big_blocks on a page
BlocksInit ==
  /\ b_sibs \in BlockPages
  /\ b_start = 0
  /\ b_found = [sib |-> 0, count |-> 0]
  /\ b_stage = <<>>
  /\ b_follow = <<>>
  /\ b_rows = <<>>
  /\ b_pc = "input"
  /\ t_text = <<>>
  /\ t_input = <<>>
  /\ t_label = ""
  /\ t_first = ""
  /\ t_pc = "idle"
  /\ s_soup = <<>>
  /\ s_rows = <<>>
  /\ s_pc = "idle"
  /\ cwd = <<>>
  /\ dirs = {}
  /\ on_nt = FALSE
  /\ files = {}
  /\ pc = "idle"
  /\ todo = <<>>
  /\ path = <<>>
  /\ filename = <<>>
  /\ species = <<>>
  /\ rows = <<>>
  /\ records = <<>>
  /\ stdout = <<>>
  /\ opens = <<>>
  /\ worksheet = <<>>
  /\ written = FALSE
  /\ exit_code = None

SpecBlocks == BlocksInit /\ [][BlocksNext]_vars

\* parse_small_ffn_tables on a contact sheet
SmallInit ==
  /\ s_soup \in { <<MakeNode("stage", 1), sheet>> : sheet \in ContactSheets }
  /\ s_rows = <<>>
  /\ s_pc = "input"
  /\ t_text = <<>>
  /\ t_input = <<>>
  /\ t_label = ""
  /\ t_first = ""
  /\ t_pc = "idle"
  /\ b_sibs = <<>>
  /\ b_start = 0
  /\ b_found = [sib |-> 0, count |-> 0]
  /\ b_stage = <<>>
  /\ b_follow = <<>>
  /\ b_rows = <<>>
  /\ b_pc = "idle"
  /\ cwd = <<>>
  /\ dirs = {}
  /\ on_nt = FALSE
  /\ files = {}
  /\ pc = "idle"
  /\ todo = <<>>
  /\ path = <<>>
  /\ filename = <<>>
  /\ species = <<>>
  /\ rows = <<>>
  /\ records = <<>>
  /\ stdout = <<>>
  /\ opens = <<>>
  /\ worksheet = <<>>
  /\ written = FALSE
  /\ exit_code = None

SpecSmall == SmallInit /\ [][SmallNext]_vars

=============================================================================
